---- MODULE Spec2Model ----
(***************************************************************************)
(* A model of the Glutin window back-end (src/src/glutin_window.rs): the   *)
(* native event source, the internal event buffer, the event classifier    *)
(* (handle_event), the cursor-capture emulation and the three retrieval    *)
(* calls poll_event, wait_event and wait_event_timeout.                    *)
(*                                                                         *)
(* Option<T> is modelled as a sequence of length 0 (None) or 1 (Some(x)).  *)
(* Characters are code points, strings are sequences of code points.       *)
(* Positions and sizes are pairs <<x, y>>; the inputs are chosen so that   *)
(* the f64 divisions of the code (by the scale factor, by 2.0) are exact.  *)
(***************************************************************************)
EXTENDS Integers, Sequences, FiniteSets, TLC

VARIABLES
    \* fields of GlutinWindow (glutin_window.rs:27-56)
    exit_on_esc, should_close, automatic_close, is_capturing_cursor,
    last_cursor_pos, mouse_relative, cursor_pos, last_key_pressed, events,
    \* the platform: the event loop's queue, the window and the surface
    native, inner_size, cursor_visible, surface_size,
    \* the timer threads spawned by wait_event_timeout that still sleep
    timers,
    \* the owning thread: "idle", or blocked in run_return inside
    \* wait_event ("wait") or wait_event_timeout ("timeout"), or inside
    \* the run_return of poll_events ("pump"); "dropped" when the window is
    \* gone
    pc, my_timer,
    \* bookkeeping of the model: the family of native events of this run,
    \* arrival and timer counters, and the record of the last operation
    family, next_id, next_timer, last, hist,
    \* the latest call of a function that works on no window: from_raw,
    \* Shaders::get, the comparison of two versions
    call

vars == <<exit_on_esc, should_close, automatic_close, is_capturing_cursor,
          last_cursor_pos, mouse_relative, cursor_pos, last_key_pressed, events,
          native, inner_size, cursor_visible, surface_size, timers, pc, my_timer,
          family, next_id, next_timer, last, hist, call>>

----------------------------------------------------------------------------
\* Bounds of the model.

\* native events that arrive in one run
MaxNative == 4
\* the same, in the runs with timer threads
MaxNativeSched == 3
\* the same, in the runs that are checked for progress
MaxNativeWait == 2
\* shader sources registered in one picker
MaxShaders == 3
\* the greatest major and minor numbers of the versions compared
MaxMajor == 4
MaxMinor == 2
\* native events that wait, in the queue or in the buffer, at one time
MaxPending == 2
\* timer threads spawned in one run
MaxTimers == 2

\* window.scale_factor(): physical units per logical unit
ScaleFactor == 2

----------------------------------------------------------------------------
\* Option<T>

None == <<>>
Some(x) == <<x>>
IsSome(o) == o # <<>>
Unwrap(o) == o[1]

----------------------------------------------------------------------------
\* Conversions

\* PhysicalPosition::to_logical::<f64>(scale)
ToLogical(p) == <<p[1] \div ScaleFactor, p[2] \div ScaleFactor>>

\* `scancode as i32`: a u32 reinterpreted in 32 bits, two's complement
AsI32(x) == IF x > 2147483647 THEN ((x - 2147483647) - 2147483647) - 2 ELSE x

\* char::to_string
CharToString(ch) == <<ch>>

\* the characters that the Text event blanks (glutin_window.rs:405-408)
ControlChars == {127, 27, 8, 13, 10, 9}

----------------------------------------------------------------------------
\* Key and button tables

map_key(keycode) ==
    CASE keycode = "Key0" -> "D0"
      [] keycode = "Key1" -> "D1"
      [] keycode = "Key2" -> "D2"
      [] keycode = "Key3" -> "D3"
      [] keycode = "Key4" -> "D4"
      [] keycode = "Key5" -> "D5"
      [] keycode = "Key6" -> "D6"
      [] keycode = "Key7" -> "D7"
      [] keycode = "Key8" -> "D8"
      [] keycode = "Key9" -> "D9"
      [] keycode = "A" -> "A"
      [] keycode = "B" -> "B"
      [] keycode = "C" -> "C"
      [] keycode = "D" -> "D"
      [] keycode = "E" -> "E"
      [] keycode = "F" -> "F"
      [] keycode = "G" -> "G"
      [] keycode = "H" -> "H"
      [] keycode = "I" -> "I"
      [] keycode = "J" -> "J"
      [] keycode = "K" -> "K"
      [] keycode = "L" -> "L"
      [] keycode = "M" -> "M"
      [] keycode = "N" -> "N"
      [] keycode = "O" -> "O"
      [] keycode = "P" -> "P"
      [] keycode = "Q" -> "Q"
      [] keycode = "R" -> "R"
      [] keycode = "S" -> "S"
      [] keycode = "T" -> "T"
      [] keycode = "U" -> "U"
      [] keycode = "V" -> "V"
      [] keycode = "W" -> "W"
      [] keycode = "X" -> "X"
      [] keycode = "Y" -> "Y"
      [] keycode = "Z" -> "Z"
      [] keycode = "Apostrophe" -> "Unknown"
      [] keycode = "Backslash" -> "Backslash"
      [] keycode = "Back" -> "Backspace"
      [] keycode = "Delete" -> "Delete"
      [] keycode = "Comma" -> "Comma"
      [] keycode = "Down" -> "Down"
      [] keycode = "End" -> "End"
      [] keycode = "Return" -> "Return"
      [] keycode = "Equals" -> "Equals"
      [] keycode = "Escape" -> "Escape"
      [] keycode = "F1" -> "F1"
      [] keycode = "F2" -> "F2"
      [] keycode = "F3" -> "F3"
      [] keycode = "F4" -> "F4"
      [] keycode = "F5" -> "F5"
      [] keycode = "F6" -> "F6"
      [] keycode = "F7" -> "F7"
      [] keycode = "F8" -> "F8"
      [] keycode = "F9" -> "F9"
      [] keycode = "F10" -> "F10"
      [] keycode = "F11" -> "F11"
      [] keycode = "F12" -> "F12"
      [] keycode = "F13" -> "F13"
      [] keycode = "F14" -> "F14"
      [] keycode = "F15" -> "F15"
      [] keycode = "F16" -> "F16"
      [] keycode = "F17" -> "F17"
      [] keycode = "F18" -> "F18"
      [] keycode = "F19" -> "F19"
      [] keycode = "F20" -> "F20"
      [] keycode = "F21" -> "F21"
      [] keycode = "F22" -> "F22"
      [] keycode = "F23" -> "F23"
      [] keycode = "F24" -> "F24"
      [] keycode = "Numpad0" -> "NumPad0"
      [] keycode = "Numpad1" -> "NumPad1"
      [] keycode = "Numpad2" -> "NumPad2"
      [] keycode = "Numpad3" -> "NumPad3"
      [] keycode = "Numpad4" -> "NumPad4"
      [] keycode = "Numpad5" -> "NumPad5"
      [] keycode = "Numpad6" -> "NumPad6"
      [] keycode = "Numpad7" -> "NumPad7"
      [] keycode = "Numpad8" -> "NumPad8"
      [] keycode = "Numpad9" -> "NumPad9"
      [] keycode = "NumpadComma" -> "NumPadDecimal"
      [] keycode = "NumpadDivide" -> "NumPadDivide"
      [] keycode = "NumpadMultiply" -> "NumPadMultiply"
      [] keycode = "NumpadSubtract" -> "NumPadMinus"
      [] keycode = "NumpadAdd" -> "NumPadPlus"
      [] keycode = "NumpadEnter" -> "NumPadEnter"
      [] keycode = "NumpadEquals" -> "NumPadEquals"
      [] keycode = "LShift" -> "LShift"
      [] keycode = "LControl" -> "LCtrl"
      [] keycode = "LAlt" -> "LAlt"
      [] keycode = "RShift" -> "RShift"
      [] keycode = "RControl" -> "RCtrl"
      [] keycode = "RAlt" -> "RAlt"
      [] keycode = "Home" -> "Home"
      [] keycode = "Insert" -> "Insert"
      [] keycode = "Left" -> "Left"
      [] keycode = "LBracket" -> "LeftBracket"
      [] keycode = "Minus" -> "Minus"
      [] keycode = "Numlock" -> "NumLockClear"
      [] keycode = "PageDown" -> "PageDown"
      [] keycode = "PageUp" -> "PageUp"
      [] keycode = "Pause" -> "Pause"
      [] keycode = "Period" -> "Period"
      [] keycode = "Snapshot" -> "PrintScreen"
      [] keycode = "Right" -> "Right"
      [] keycode = "RBracket" -> "RightBracket"
      [] keycode = "Scroll" -> "ScrollLock"
      [] keycode = "Semicolon" -> "Semicolon"
      [] keycode = "Slash" -> "Slash"
      [] keycode = "Space" -> "Space"
      [] keycode = "Tab" -> "Tab"
      [] keycode = "Up" -> "Up"
      [] OTHER -> "Unknown"

map_mouse(mouse_button) ==
    CASE mouse_button = <<"Left">> -> "Left"
      [] mouse_button = <<"Right">> -> "Right"
      [] mouse_button = <<"Middle">> -> "Middle"
      [] mouse_button = <<"Other", 0>> -> "X1"
      [] mouse_button = <<"Other", 1>> -> "X2"
      [] mouse_button = <<"Other", 2>> -> "Button6"
      [] mouse_button = <<"Other", 3>> -> "Button7"
      [] mouse_button = <<"Other", 4>> -> "Button8"
      [] OTHER -> "Unknown"

----------------------------------------------------------------------------
\* Normalized input events (crate::input::Input) and Event::Input(x, None)

ButtonArgs(state, button, scancode) ==
    [kind |-> "Button", state |-> state, button |-> button, scancode |-> scancode]
Keyboard(key) == [dev |-> "Keyboard", code |-> key]
Mouse(b) == [dev |-> "Mouse", code |-> b]
MouseCursor(p) == [kind |-> "Move", motion |-> "MouseCursor", v |-> p]
MouseRelative(d) == [kind |-> "Move", motion |-> "MouseRelative", v |-> d]
MouseScroll(d) == [kind |-> "Move", motion |-> "MouseScroll", v |-> d]
TouchArgs(id, pos, phase) ==
    [kind |-> "Move", motion |-> "Touch", device |-> 0, id |-> id, v |-> pos,
     pressure |-> 1, touch |-> phase]
Text(s) == [kind |-> "Text", text |-> s]
ResizeArgs(ws, ds) == [kind |-> "Resize", window_size |-> ws, draw_size |-> ds]
Focus(b) == [kind |-> "Focus", focused |-> b]
Cursor(b) == [kind |-> "Cursor", entered |-> b]
FileDrag(what, path) == [kind |-> "FileDrag", drag |-> what, path |-> path]
Close == [kind |-> "Close"]
EventInput(x) == [event |-> "Input", input |-> x, timestamp |-> None]

----------------------------------------------------------------------------
\* Native events (winit::event::Event<UserEvent>). Every event that arrives
\* from the platform carries the index of its arrival, id; a wake marker
\* carries the timer that sent it (0: sent by poll_events). Neither is read
\* by the program.

WakeUp(t) == [type |-> "UserEvent", tid |-> t]
IsWakeUp(ev) == ev.type = "UserEvent"

\* the window events whose payload to_static_event cannot own
UnownableTypes == {"ModifiersChanged", "ScaleFactorChanged", "Ime",
                   "TouchpadMagnify", "TouchpadRotate", "Occluded", "SmartMagnify"}

\* a variant that owns an Ime event
to_static_event_keeps_ime(event) ==
    IF event.type \in UnownableTypes \ {"Ime"} THEN None ELSE Some(event)

to_static_event(event) ==
    IF event.type \in UnownableTypes THEN None ELSE Some(event)

----------------------------------------------------------------------------
\* The window as one record, for the operators below.

\* Window::size: the inner size in logical units
size(w) == ToLogical(w.inner_size)

\* a variant that takes the pointer for moved whatever the platform says
fake_capture_unchecked(w, ok) ==
    IF IsSome(w.last_cursor_pos)
    THEN [w EXCEPT !.last_cursor_pos = Some(<<size(w)[1] \div 2, size(w)[2] \div 2>>)]
    ELSE w

\* The answer of window.set_cursor_position is the platform's: ok.
fake_capture(w, ok) ==
    IF IsSome(w.last_cursor_pos)
    THEN LET pos == Unwrap(w.last_cursor_pos)
             cx == size(w)[1] \div 2
             cy == size(w)[2] \div 2
             dx == cx - pos[1]
             dy == cy - pos[2]
         IN IF (dx # 0 \/ dy # 0) /\ ok
            THEN [w EXCEPT !.last_cursor_pos = Some(<<cx, cy>>)]
            ELSE w
    ELSE w

\* a variant that does not look for a pending relative motion
pre_pop_front_event_ignores(w) ==
    IF IsSome(w.cursor_pos)
    THEN [w |-> [w EXCEPT !.cursor_pos = None],
          out |-> Some(MouseCursor(Unwrap(w.cursor_pos)))]
    ELSE [w |-> w, out |-> None]

\* a variant that leaves the relative motion pending
pre_pop_front_event_keeps(w) ==
    IF IsSome(w.cursor_pos)
    THEN [w |-> [w EXCEPT !.cursor_pos = None],
          out |-> Some(MouseCursor(Unwrap(w.cursor_pos)))]
    ELSE IF IsSome(w.mouse_relative)
    THEN [w |-> w, out |-> Some(MouseRelative(Unwrap(w.mouse_relative)))]
    ELSE [w |-> w, out |-> None]

pre_pop_front_event(w) ==
    IF IsSome(w.cursor_pos)
    THEN [w |-> [w EXCEPT !.cursor_pos = None],
          out |-> Some(MouseCursor(Unwrap(w.cursor_pos)))]
    ELSE IF IsSome(w.mouse_relative)
    THEN [w |-> [w EXCEPT !.mouse_relative = None],
          out |-> Some(MouseRelative(Unwrap(w.mouse_relative)))]
    ELSE [w |-> w, out |-> None]

\* The result of handle_event: the window after it, the returned
\* Option<Input>, and the `unknown` flag.
Handled(w, out) == [w |-> w, out |-> out, unknown |-> FALSE]
\* a variant that leaves `unknown` as it was
Unknown_unset(w) == [w |-> w, out |-> None, unknown |-> FALSE]
Unknown(w) == [w |-> w, out |-> None, unknown |-> TRUE]

handle_resized(w, draw_size) ==
    LET sz == size(w) IN
    IF draw_size[1] = 0 \/ draw_size[2] = 0
    THEN Handled(w, None)
    ELSE Handled([w EXCEPT !.surface_size = draw_size],
                 Some(ResizeArgs(sz, draw_size)))

\* a variant that passes every character on
handle_received_character_raw(w, ch) ==
    Handled(w, Some(Text(CharToString(ch))))

handle_received_character(w, ch) ==
    LET string == IF ch \in ControlChars THEN <<>> ELSE CharToString(ch)
    IN Handled(w, Some(Text(string)))

\* a variant that tracks the first key down until it is released
handle_key_pressed_keeps_first(w, key, scancode) ==
    LET piston_key == map_key(key)
        w1 == IF w.exit_on_esc /\ piston_key = "Escape"
              THEN [w EXCEPT !.should_close = TRUE] ELSE w
    IN IF IsSome(w1.last_key_pressed) /\ Unwrap(w1.last_key_pressed) = piston_key
       THEN Unknown(w1)
       ELSE Handled(IF IsSome(w1.last_key_pressed) THEN w1
                    ELSE [w1 EXCEPT !.last_key_pressed = Some(piston_key)],
                    Some(ButtonArgs("Press", Keyboard(piston_key),
                                    Some(AsI32(scancode)))))

\* a variant that never takes a press for a repeat
handle_key_pressed_no_filter(w, key, scancode) ==
    LET piston_key == map_key(key)
        w1 == IF w.exit_on_esc /\ piston_key = "Escape"
              THEN [w EXCEPT !.should_close = TRUE] ELSE w
    IN Handled([w1 EXCEPT !.last_key_pressed = Some(piston_key)],
               Some(ButtonArgs("Press", Keyboard(piston_key),
                               Some(AsI32(scancode)))))

\* a variant that looks for Escape only in the presses it returns
handle_key_pressed_esc_late(w, key, scancode) ==
    LET piston_key == map_key(key)
        w1 == IF w.exit_on_esc /\ piston_key = "Escape"
              THEN [w EXCEPT !.should_close = TRUE] ELSE w
    IN IF IsSome(w.last_key_pressed) /\ Unwrap(w.last_key_pressed) = piston_key
       THEN Unknown(w)
       ELSE Handled([w1 EXCEPT !.last_key_pressed = Some(piston_key)],
                    Some(ButtonArgs("Press", Keyboard(piston_key),
                                    Some(AsI32(scancode)))))

\* a variant whose repeat filter remembers the platform's key code
handle_key_pressed_by_code(w, key, scancode) ==
    LET w1 == IF w.exit_on_esc /\ map_key(key) = "Escape"
              THEN [w EXCEPT !.should_close = TRUE] ELSE w
    IN IF IsSome(w1.last_key_pressed) /\ Unwrap(w1.last_key_pressed) = key
       THEN Unknown(w1)
       ELSE Handled([w1 EXCEPT !.last_key_pressed = Some(key)],
                    Some(ButtonArgs("Press", Keyboard(map_key(key)),
                                    Some(AsI32(scancode)))))

handle_key_pressed(w, key, scancode) ==
    LET piston_key == map_key(key)
        w1 == IF w.exit_on_esc /\ piston_key = "Escape"
              THEN [w EXCEPT !.should_close = TRUE] ELSE w
    IN IF IsSome(w1.last_key_pressed) /\ Unwrap(w1.last_key_pressed) = piston_key
       THEN Unknown(w1)
       ELSE Handled([w1 EXCEPT !.last_key_pressed = Some(piston_key)],
                    Some(ButtonArgs("Press", Keyboard(piston_key),
                                    Some(AsI32(scancode)))))

\* a variant that takes the release of a key for the end of a close request
handle_key_released_reopens(w, key, scancode) ==
    LET piston_key == map_key(key)
        w1 == IF IsSome(w.last_key_pressed) /\ Unwrap(w.last_key_pressed) = piston_key
              THEN [w EXCEPT !.last_key_pressed = None, !.should_close = FALSE] ELSE w
    IN Handled(w1, Some(ButtonArgs("Release", Keyboard(piston_key),
                                   Some(AsI32(scancode)))))

\* a variant that leaves the released key in the slot
handle_key_released_keeps(w, key, scancode) ==
    Handled(w, Some(ButtonArgs("Release", Keyboard(map_key(key)), Some(AsI32(scancode)))))

\* a variant that empties the slot on every release
handle_key_released_clears(w, key, scancode) ==
    Handled([w EXCEPT !.last_key_pressed = None],
            Some(ButtonArgs("Release", Keyboard(map_key(key)), Some(AsI32(scancode)))))

handle_key_released(w, key, scancode) ==
    LET piston_key == map_key(key)
        w1 == IF IsSome(w.last_key_pressed) /\ Unwrap(w.last_key_pressed) = piston_key
              THEN [w EXCEPT !.last_key_pressed = None] ELSE w
    IN Handled(w1, Some(ButtonArgs("Release", Keyboard(piston_key),
                                   Some(AsI32(scancode)))))

\* a variant that leaves the pointer where the move has put it
handle_cursor_moved_no_recenter(w, position, ok) ==
    LET p == ToLogical(position) IN
    IF IsSome(w.last_cursor_pos)
    THEN LET pos == Unwrap(w.last_cursor_pos)
             dx == p[1] - pos[1]
             dy == p[2] - pos[2]
         IN IF w.is_capturing_cursor
            THEN Handled([w EXCEPT !.last_cursor_pos = Some(p)],
                         Some(MouseRelative(<<dx, dy>>)))
            ELSE Handled([w EXCEPT !.mouse_relative = Some(<<dx, dy>>),
                                   !.last_cursor_pos = Some(p)],
                         Some(MouseCursor(p)))
    ELSE Handled([w EXCEPT !.last_cursor_pos = Some(p)], Some(MouseCursor(p)))

\* a variant that returns the position of the move in capture mode too
handle_cursor_moved_absolute(w, position, ok) ==
    LET p == ToLogical(position) IN
    IF IsSome(w.last_cursor_pos)
    THEN LET pos == Unwrap(w.last_cursor_pos)
             dx == p[1] - pos[1]
             dy == p[2] - pos[2]
         IN IF w.is_capturing_cursor
            THEN Handled(fake_capture([w EXCEPT !.last_cursor_pos = Some(p)], ok),
                         Some(MouseCursor(p)))
            ELSE Handled([w EXCEPT !.mouse_relative = Some(<<dx, dy>>),
                                   !.last_cursor_pos = Some(p)],
                         Some(MouseCursor(p)))
    ELSE Handled([w EXCEPT !.last_cursor_pos = Some(p)], Some(MouseCursor(p)))

\* a variant that stashes no relative motion
handle_cursor_moved_no_stash(w, position, ok) ==
    LET p == ToLogical(position) IN
    IF IsSome(w.last_cursor_pos)
    THEN LET pos == Unwrap(w.last_cursor_pos)
             dx == p[1] - pos[1]
             dy == p[2] - pos[2]
         IN IF w.is_capturing_cursor
            THEN Handled(fake_capture([w EXCEPT !.last_cursor_pos = Some(p)], ok),
                         Some(MouseRelative(<<dx, dy>>)))
            ELSE Handled([w EXCEPT !.last_cursor_pos = Some(p)], Some(MouseCursor(p)))
    ELSE Handled([w EXCEPT !.last_cursor_pos = Some(p)], Some(MouseCursor(p)))

\* a variant that does not keep the position of the first move
handle_cursor_moved_forgets(w, position, ok) ==
    LET p == ToLogical(position) IN
    IF IsSome(w.last_cursor_pos)
    THEN LET pos == Unwrap(w.last_cursor_pos)
             dx == p[1] - pos[1]
             dy == p[2] - pos[2]
         IN IF w.is_capturing_cursor
            THEN Handled(fake_capture([w EXCEPT !.last_cursor_pos = Some(p)], ok),
                         Some(MouseRelative(<<dx, dy>>)))
            ELSE Handled([w EXCEPT !.mouse_relative = Some(<<dx, dy>>),
                                   !.last_cursor_pos = Some(p)],
                         Some(MouseCursor(p)))
    ELSE Handled(w, Some(MouseCursor(p)))

\* a variant that keeps the position of a move in capture mode for the
\* next call
handle_cursor_moved_pends(w, position, ok) ==
    LET p == ToLogical(position) IN
    IF IsSome(w.last_cursor_pos)
    THEN LET pos == Unwrap(w.last_cursor_pos)
             dx == p[1] - pos[1]
             dy == p[2] - pos[2]
         IN IF w.is_capturing_cursor
            THEN Handled(fake_capture([w EXCEPT !.last_cursor_pos = Some(p),
                                                !.cursor_pos = Some(p)], ok),
                         Some(MouseRelative(<<dx, dy>>)))
            ELSE Handled([w EXCEPT !.mouse_relative = Some(<<dx, dy>>),
                                   !.last_cursor_pos = Some(p)],
                         Some(MouseCursor(p)))
    ELSE Handled([w EXCEPT !.last_cursor_pos = Some(p)], Some(MouseCursor(p)))

handle_cursor_moved(w, position, ok) ==
    LET p == ToLogical(position) IN
    IF IsSome(w.last_cursor_pos)
    THEN LET pos == Unwrap(w.last_cursor_pos)
             dx == p[1] - pos[1]
             dy == p[2] - pos[2]
         IN IF w.is_capturing_cursor
            THEN Handled(fake_capture([w EXCEPT !.last_cursor_pos = Some(p)], ok),
                         Some(MouseRelative(<<dx, dy>>)))
            ELSE Handled([w EXCEPT !.mouse_relative = Some(<<dx, dy>>),
                                   !.last_cursor_pos = Some(p)],
                         Some(MouseCursor(p)))
    ELSE Handled([w EXCEPT !.last_cursor_pos = Some(p)], Some(MouseCursor(p)))

\* a variant that closes whatever automatic_close says
handle_close_requested_always(w) ==
    Handled([w EXCEPT !.should_close = TRUE], Some(Close))

handle_close_requested(w) ==
    Handled(IF w.automatic_close THEN [w EXCEPT !.should_close = TRUE] ELSE w,
            Some(Close))

TouchPhase(phase) ==
    CASE phase = "Started" -> "Start"
      [] phase = "Moved" -> "Move"
      [] phase = "Ended" -> "End"
      [] phase = "Cancelled" -> "Cancel"

\* ev is an Option of a native event.
handle_event(w, ev, ok) ==
    IF ev = None
    THEN Handled(IF w.is_capturing_cursor THEN fake_capture(w, ok) ELSE w, None)
    ELSE LET e == Unwrap(ev) IN
    CASE e.type = "Resized" -> handle_resized(w, e.size)
      [] e.type = "ReceivedCharacter" -> handle_received_character(w, e.ch)
      [] e.type = "Focused" -> Handled(w, Some(Focus(e.focused)))
      [] e.type = "KeyboardInput" /\ e.state = "Pressed" /\ IsSome(e.virtual_keycode) ->
            handle_key_pressed(w, Unwrap(e.virtual_keycode), e.scancode)
      [] e.type = "KeyboardInput" /\ e.state = "Released" /\ IsSome(e.virtual_keycode) ->
            handle_key_released(w, Unwrap(e.virtual_keycode), e.scancode)
      [] e.type = "Touch" ->
            Handled(w, Some(TouchArgs(e.touch_id, ToLogical(e.location),
                                      TouchPhase(e.phase))))
      [] e.type = "CursorMoved" -> handle_cursor_moved(w, e.position, ok)
      [] e.type = "CursorEntered" -> Handled(w, Some(Cursor(TRUE)))
      [] e.type = "CursorLeft" -> Handled(w, Some(Cursor(FALSE)))
      [] e.type = "MouseWheel" /\ e.unit = "PixelDelta" ->
            Handled(w, Some(MouseScroll(ToLogical(e.delta))))
      [] e.type = "MouseWheel" /\ e.unit = "LineDelta" ->
            Handled(w, Some(MouseScroll(e.delta)))
      [] e.type = "MouseInput" /\ e.state = "Pressed" ->
            Handled(w, Some(ButtonArgs("Press", Mouse(map_mouse(e.button)), None)))
      [] e.type = "MouseInput" /\ e.state = "Released" ->
            Handled(w, Some(ButtonArgs("Release", Mouse(map_mouse(e.button)), None)))
      [] e.type = "HoveredFile" -> Handled(w, Some(FileDrag("Hover", Some(e.path))))
      [] e.type = "DroppedFile" -> Handled(w, Some(FileDrag("Drop", Some(e.path))))
      [] e.type = "HoveredFileCancelled" -> Handled(w, Some(FileDrag("Cancel", None)))
      [] e.type = "CloseRequested" -> handle_close_requested(w)
      [] e.type = "UserEvent" -> Handled(w, None)
      [] OTHER -> Unknown(w)

----------------------------------------------------------------------------
\* The pump and poll_event. Both work on the window record w, which here
\* also holds the event loop's queue (w.native). The log lists what a call
\* did, in order: its pumps, the seed moves it absorbed, and every call of
\* handle_event with the window before and after it.

\* the first wake marker of a non-empty queue that holds one
RECURSIVE FirstWakeUp(_, _)
FirstWakeUp(q, i) == IF IsWakeUp(q[i]) THEN i ELSE FirstWakeUp(q, i + 1)

RECURSIVE Statics(_)
Statics(q) ==
    IF q = <<>> THEN <<>>
    ELSE LET e == to_static_event(Head(q))
         IN (IF IsSome(e) THEN <<Unwrap(e)>> ELSE <<>>) \o Statics(Tail(q))

\* a variant that sends its wake marker twice
poll_events_two_markers(w) ==
    LET q == w.native \o <<WakeUp(0), WakeUp(0)>>
        k == FirstWakeUp(q, 1)
    IN [w EXCEPT !.events = w.events \o Statics(SubSeq(q, 1, k)),
                 !.native = SubSeq(q, k + 1, Len(q))]

\* a variant that throws away what the queue holds behind the marker at
\* which it stops
poll_events_flush(w) ==
    LET q == Append(w.native, WakeUp(0))
        k == FirstWakeUp(q, 1)
    IN [w EXCEPT !.events = w.events \o Statics(SubSeq(q, 1, k)),
                 !.native = <<>>]

\* send_event(WakeUp), then run_return until a wake marker is observed
poll_events(w) ==
    LET q == Append(w.native, WakeUp(0))
        k == FirstWakeUp(q, 1)
    IN [w EXCEPT !.events = w.events \o Statics(SubSeq(q, 1, k)),
                 !.native = SubSeq(q, k + 1, Len(q))]

\* run_return with ControlFlow::Exit (wait_event, wait_event_timeout): the
\* callback gets one event of a non-empty queue
run_return_one(w) ==
    [w EXCEPT !.events = w.events \o Statics(<<Head(w.native)>>),
              !.native = Tail(w.native)]

PumpEntry(w, w1) ==
    [step |-> "pump", taken |-> Len(w.native) + 1 - Len(w1.native),
     own |-> (w1.native = <<>>)]
SeedEntry(e) == [step |-> "seed", ev |-> e]
HandleEntry(ev, h, w) ==
    [step |-> "handle", ev |-> ev, out |-> h.out, unknown |-> h.unknown,
     before |-> [w EXCEPT !.events = <<>>, !.native = <<>>],
     after |-> [h.w EXCEPT !.events = <<>>, !.native = <<>>]]

\* `if self.events.is_empty() { self.poll_events(); }`
Refill(w) == IF w.events = <<>> THEN poll_events(w) ELSE w
RefillLog(w) == IF w.events = <<>> THEN <<PumpEntry(w, poll_events(w))>> ELSE <<>>

\* a variant that takes the newest event of the buffer
pop_back(w) ==
    IF w.events = <<>> THEN [w |-> w, ev |-> None]
    ELSE [w |-> [w EXCEPT !.events = SubSeq(w.events, 1, Len(w.events) - 1)],
          ev |-> Some(w.events[Len(w.events)])]

\* events.pop_front()
pop_front(w) ==
    IF w.events = <<>> THEN [w |-> w, ev |-> None]
    ELSE [w |-> [w EXCEPT !.events = Tail(w.events)], ev |-> Some(Head(w.events))]

\* a variant that takes no move for a seed
is_seed_move_never(w, ev) == FALSE

\* the test of poll_event for the move that seeds last_cursor_pos
is_seed_move(w, ev) ==
    /\ w.is_capturing_cursor
    /\ w.last_cursor_pos = None
    /\ IsSome(ev)
    /\ Unwrap(ev).type = "CursorMoved"

\* the element of a one-element set: Only({F(x) : x \in {e}}) is F(e), with
\* e evaluated once however often F uses x
Only(S) == CHOOSE x \in S : TRUE

\* the second pop of poll_event, made after a seed move
pop_after_seed(p1, log1) ==
    LET ws == [p1.w EXCEPT !.last_cursor_pos =
                              Some(ToLogical(Unwrap(p1.ev).position))]
    IN [p |-> pop_front(Refill(ws)),
        log |-> Append(log1, SeedEntry(Unwrap(p1.ev))) \o RefillLog(ws)]

RECURSIVE poll_event(_, _, _)
poll_event(w, ok, log) ==
    Only({
        IF IsSome(pre.out)
        THEN [w |-> pre.w, ret |-> Some(EventInput(Unwrap(pre.out))),
              log |-> Append(log, [step |-> "pre_pop", out |-> pre.out])]
        ELSE Only({Only({Only({
            IF h.unknown
            THEN Only({poll_event(n.w, ok, n.log) :
                          n \in {[w |-> h.w,
                                  log |-> Append(s.log, HandleEntry(s.p.ev, h, s.p.w))]}})
            ELSE [w |-> h.w,
                  ret |-> IF IsSome(h.out) THEN Some(EventInput(Unwrap(h.out)))
                          ELSE None,
                  log |-> Append(s.log, HandleEntry(s.p.ev, h, s.p.w))]
            : h \in {handle_event(s.p.w, s.p.ev, ok)}})
            : s \in {IF is_seed_move(p1.w, p1.ev)
                     THEN pop_after_seed(p1, log \o RefillLog(w))
                     ELSE [p |-> p1, log |-> log \o RefillLog(w)]}})
            : p1 \in {pop_front(Refill(w))}})
        : pre \in {pre_pop_front_event(w)}})

----------------------------------------------------------------------------
\* The native events of a run. A run draws its events from one family.

Families == {"keys", "cursor", "text", "window", "sched", "wait", "pump", "skip",
             "capture", "static", "close"}

KeyboardInput(state, key) ==
    [type |-> "KeyboardInput", state |-> state, virtual_keycode |-> key,
     scancode |-> 30]
CursorMoved(p) == [type |-> "CursorMoved", position |-> p]
ReceivedCharacter(ch) == [type |-> "ReceivedCharacter", ch |-> ch]
Resized(s) == [type |-> "Resized", size |-> s]
Plain(t) == [type |-> t]

NativeEvents(fam) ==
    CASE fam = "keys" ->
            {KeyboardInput("Pressed", Some(k)) :
                k \in {"A", "Escape", "Apostrophe", "Grave"}}
            \cup {KeyboardInput("Released", Some(k)) : k \in {"A", "Escape"}}
      [] fam = "cursor" ->
            {CursorMoved(p) : p \in {<<0, 0>>, <<4, 2>>, <<6, 2>>}}
            \cup {Plain("CursorEntered"), Plain("Moved")}
      [] fam = "text" ->
            {ReceivedCharacter(ch) : ch \in ControlChars \cup {97}}
            \cup {KeyboardInput("Pressed", Some("A"))}
      [] fam = "window" ->
            {Resized(s) : s \in {<<0, 4>>, <<16, 8>>}}
            \cup {Plain("CloseRequested"), Plain("ModifiersChanged"),
                  [type |-> "Focused", focused |-> TRUE]}
      [] fam = "sched" ->
            {CursorMoved(<<0, 0>>), CursorMoved(<<6, 2>>), Plain("Moved"),
             Plain("ModifiersChanged")}
      [] fam = "wait" ->
            {CursorMoved(<<6, 2>>), Plain("Moved"), Plain("ModifiersChanged")}
      [] fam = "pump" ->
            {Plain("Moved"), Plain("ModifiersChanged")}
      [] fam = "capture" ->
            {CursorMoved(p) : p \in {<<0, 0>>, <<4, 2>>, <<6, 2>>}}
            \cup {Plain("Moved")}
      [] fam = "static" ->
            {Plain(t) : t \in {"ModifiersChanged", "ScaleFactorChanged", "Ime",
                               "TouchpadMagnify", "TouchpadRotate", "Occluded",
                               "SmartMagnify", "Moved"}}
            \cup {CursorMoved(<<6, 2>>)}
      [] fam = "close" ->
            {KeyboardInput("Pressed", Some("Escape")),
             KeyboardInput("Released", Some("Escape")),
             Plain("CloseRequested"), [type |-> "Focused", focused |-> TRUE]}
      [] fam = "skip" ->
            {KeyboardInput("Pressed", Some("A")), KeyboardInput("Released", Some("A")),
             KeyboardInput("Pressed", None), Plain("Moved")}

----------------------------------------------------------------------------
\* State

Win ==
    [exit_on_esc |-> exit_on_esc, should_close |-> should_close,
     automatic_close |-> automatic_close,
     is_capturing_cursor |-> is_capturing_cursor,
     last_cursor_pos |-> last_cursor_pos, mouse_relative |-> mouse_relative,
     cursor_pos |-> cursor_pos, last_key_pressed |-> last_key_pressed,
     events |-> events, native |-> native, inner_size |-> inner_size,
     surface_size |-> surface_size]

SetWin(w) ==
    /\ exit_on_esc' = w.exit_on_esc
    /\ should_close' = w.should_close
    /\ automatic_close' = w.automatic_close
    /\ is_capturing_cursor' = w.is_capturing_cursor
    /\ last_cursor_pos' = w.last_cursor_pos
    /\ mouse_relative' = w.mouse_relative
    /\ cursor_pos' = w.cursor_pos
    /\ last_key_pressed' = w.last_key_pressed
    /\ events' = w.events
    /\ native' = w.native
    /\ inner_size' = w.inner_size
    /\ surface_size' = w.surface_size

\* the size the window is built with
InitialSize == <<8, 4>>

\* the record of the last operation of the owning thread
\* (quiet: no native event has arrived since the call began, and none was
\* waiting when it began)
Op(op, pre, ok, returned, ret, log, took, h0, quiet) ==
    [op |-> op, pre |-> pre, ok |-> ok, returned |-> returned, ret |-> ret,
     log |-> log, took |-> took, hist0 |-> h0, quiet |-> quiet]

\* the events other than wake markers that wait in the queue or the buffer
Pending == Len(SelectSeq(native \o events, LAMBDA e : ~IsWakeUp(e)))
NothingWaiting == Pending = 0

\* the record after an operation that retrieves nothing
NoOp == Op("other", None, TRUE, TRUE, None, <<>>, None, None, TRUE)

\* no call of a function outside the window so far
NoCall == [fn |-> "none"]

\* the history of a run that has done nothing (see below)
NoHistory ==
    [held |-> None, ret_id |-> 0, cursor |-> None, moved |-> FALSE, down |-> {},
     released |-> {}, stale |-> FALSE]

\* GlutinWindow::from_raw: the window after construction
Init ==
    /\ exit_on_esc \in BOOLEAN
    /\ automatic_close \in BOOLEAN
    /\ should_close = FALSE
    /\ cursor_pos = None
    /\ is_capturing_cursor = FALSE
    /\ last_cursor_pos = None
    /\ mouse_relative = None
    /\ last_key_pressed = None
    /\ events = <<>>
    /\ native = <<>>
    /\ inner_size = InitialSize
    /\ surface_size = InitialSize
    /\ cursor_visible = TRUE
    /\ timers = {}
    /\ pc = "idle"
    /\ my_timer = 0
    /\ family \in Families
    /\ next_id = 0
    /\ next_timer = 0
    /\ last = NoOp
    /\ hist = NoHistory
    /\ call = NoCall

----------------------------------------------------------------------------
\* What the run has done so far, as far as the properties below need it:
\*   held    the key that the classified keyboard events leave held: the
\*           key of the latest Pressed event, unless a Released event for
\*           it came after;
\*   ret_id  the arrival index of the latest native event that a retrieval
\*           call returned an input event for (0: none yet);
\*   down    the keys that the classified keyboard events leave down: those
\*           with a Pressed event and no Released event after it;
\*   cursor  what the latest retrieval call that returned has returned, if
\*           that is the MouseCursor of a CursorMoved: the logical positions
\*           before and after the move;
\*   moved   whether poll_event has seen a CursorMoved: absorbed one as
\*           the seed or passed one to handle_event;
\*   released  the keys whose latest classified keyboard event is a
\*           Released;
\*   stale   whether a pump has stopped at a wake marker sent before its
\*           own.


IsHandleOf(entry, type) ==
    /\ entry.step = "handle"
    /\ IsSome(entry.ev)
    /\ Unwrap(entry.ev).type = type

IsKey(entry, state) ==
    /\ IsHandleOf(entry, "KeyboardInput")
    /\ Unwrap(entry.ev).state = state
    /\ IsSome(Unwrap(entry.ev).virtual_keycode)

KeyOf(entry) == map_key(Unwrap(Unwrap(entry.ev).virtual_keycode))

HeldStep(h, entry) ==
    IF IsKey(entry, "Pressed") THEN Some(KeyOf(entry))
    ELSE IF IsKey(entry, "Released") /\ h = Some(KeyOf(entry)) THEN None
    ELSE h

RECURSIVE HeldAfter(_, _, _)
HeldAfter(h, log, n) ==
    IF n = 0 THEN h ELSE HeldStep(HeldAfter(h, log, n - 1), log[n])

DownStep(d, entry) ==
    IF IsKey(entry, "Pressed") THEN d \cup {KeyOf(entry)}
    ELSE IF IsKey(entry, "Released") THEN d \ {KeyOf(entry)}
    ELSE d

RECURSIVE DownAfter(_, _, _)
DownAfter(d, log, n) ==
    IF n = 0 THEN d ELSE DownStep(DownAfter(d, log, n - 1), log[n])

\* the keys whose latest key event is a Released
ReleasedStep(u, entry) ==
    IF IsKey(entry, "Pressed") THEN u \ {KeyOf(entry)}
    ELSE IF IsKey(entry, "Released") THEN u \cup {KeyOf(entry)}
    ELSE u

RECURSIVE ReleasedAfter(_, _, _)
ReleasedAfter(u, log, n) ==
    IF n = 0 THEN u ELSE ReleasedStep(ReleasedAfter(u, log, n - 1), log[n])

\* the last entry of the log of a call
Final(log) == log[Len(log)]

\* the call returned the input event that its last handle_event produced
FromNative(r) ==
    /\ IsSome(r.ret)
    /\ Final(r.log).step = "handle"

\* the log holds a CursorMoved, as a seed or in a handle_event
SeesMove(log) ==
    \E i \in 1..Len(log) : log[i].step = "seed" \/ IsHandleOf(log[i], "CursorMoved")

\* a pump of the log has stopped at a wake marker sent before its own
StopsEarly(log) ==
    \E i \in 1..Len(log) : log[i].step = "pump" /\ ~log[i].own

HistAfter(h, r, returned) ==
    [moved |-> h.moved \/ SeesMove(r.log),
     down |-> DownAfter(h.down, r.log, Len(r.log)),
     released |-> ReleasedAfter(h.released, r.log, Len(r.log)),
     stale |-> h.stale \/ StopsEarly(r.log),
     held |-> HeldAfter(h.held, r.log, Len(r.log)),
     ret_id |-> IF FromNative(r) THEN Unwrap(Final(r.log).ev).id ELSE h.ret_id,
     cursor |-> IF ~returned THEN h.cursor
                ELSE IF /\ FromNative(r)
                        /\ IsHandleOf(Final(r.log), "CursorMoved")
                        /\ Unwrap(Final(r.log).out).motion = "MouseCursor"
                THEN Some([from |-> Final(r.log).before.last_cursor_pos,
                           to |-> ToLogical(Unwrap(Final(r.log).ev).position)])
                ELSE None]

----------------------------------------------------------------------------
\* The platform

\* A native event arrives in the event loop's queue. A resize has changed
\* the window's inner size when its event arrives.
NativeArrive ==
    /\ pc # "dropped"
    /\ next_id < (CASE family \in {"sched", "close"} -> MaxNativeSched
                     [] family \in {"wait", "pump", "static"} -> MaxNativeWait
                     [] OTHER -> MaxNative)
    /\ Pending < MaxPending
    /\ \E e \in NativeEvents(family) :
        /\ native' = Append(native, e @@ [id |-> next_id + 1])
        /\ inner_size' = IF e.type = "Resized" THEN e.size ELSE inner_size
    /\ next_id' = next_id + 1
    /\ last' = IF pc = "idle" THEN NoOp ELSE [last EXCEPT !.quiet = FALSE]
    /\ UNCHANGED <<exit_on_esc, should_close, automatic_close, is_capturing_cursor,
                   last_cursor_pos, mouse_relative, cursor_pos, last_key_pressed,
                   events, cursor_visible, surface_size, timers, pc, my_timer,
                   family, call, next_timer, hist>>

\* A timer thread of wait_event_timeout has slept its timeout and sends its
\* wake marker.
TimerFire ==
    /\ pc # "dropped"
    /\ \E t \in timers :
        /\ native' = Append(native, WakeUp(t))
        /\ timers' = timers \ {t}
    /\ last' = IF pc = "idle" THEN NoOp ELSE last
    /\ UNCHANGED <<exit_on_esc, should_close, automatic_close, is_capturing_cursor,
                   last_cursor_pos, mouse_relative, cursor_pos, last_key_pressed,
                   events, inner_size, cursor_visible, surface_size, pc, my_timer,
                   family, call, next_id, next_timer, hist>>

\* The same when the window and its event loop are gone: send_event fails
\* and `.ok()` throws the error away.
TimerFireGone ==
    /\ pc = "dropped"
    /\ \E t \in timers : timers' = timers \ {t}
    /\ UNCHANGED <<exit_on_esc, should_close, automatic_close, is_capturing_cursor,
                   last_cursor_pos, mouse_relative, cursor_pos, last_key_pressed,
                   events, native, inner_size, cursor_visible, surface_size, pc,
                   my_timer, family, call, next_id, next_timer, last, hist>>

----------------------------------------------------------------------------
\* The owning thread

\* The caller drops the window, and with it the event loop; the timer
\* threads are detached and go on.
Drop ==
    /\ pc = "idle"
    /\ pc' = "dropped"
    /\ last' = NoOp
    /\ UNCHANGED <<exit_on_esc, should_close, automatic_close, is_capturing_cursor,
                   last_cursor_pos, mouse_relative, cursor_pos, last_key_pressed,
                   events, native, inner_size, cursor_visible, surface_size, timers,
                   my_timer, family, call, next_id, next_timer, hist>>

\* a variant that spawns no thread
spawn_never(ts, t) == ts

\* a variant that spawns no thread while an earlier one sleeps
spawn_dedup(ts, t) == IF ts = {} THEN {t} ELSE ts

\* thread::spawn of wait_event_timeout: one more timer thread
spawn(ts, t) == ts \cup {t}

\* a variant that returns whatever poll_event hands back
returns_always(r) == TRUE

\* `if let Some(event) = self.poll_event() { return event; }` of wait_event
\* and of the first lines of wait_event_timeout
returns_event(r) == IsSome(r.ret)

\* The answers of the platform to set_cursor_position that a retrieval call
\* can meet: the call asks only in capture mode.
Answers == IF is_capturing_cursor THEN BOOLEAN ELSE {TRUE}

Retrieved(op, ok, r, returned, took, quiet) ==
    /\ SetWin(r.w)
    /\ last' = Op(op, Win, ok, returned, r.ret, r.log, took, hist, quiet)
    /\ hist' = HistAfter(hist, r, returned)

PollEvent ==
    /\ pc = "idle"
    /\ \E ok \in Answers :
        Retrieved("poll_event", ok, poll_event(Win, ok, <<>>), TRUE, None,
                  NothingWaiting)
    /\ UNCHANGED <<cursor_visible, timers, pc, my_timer, family, call, next_id, next_timer>>

\* wait_event up to its first run_return
WaitEvent ==
    /\ pc = "idle"
    /\ \E ok \in Answers :
        LET r == poll_event(Win, ok, <<>>) IN
        /\ Retrieved("wait_event", ok, r, returns_event(r), None, NothingWaiting)
        /\ pc' = IF returns_event(r) THEN "idle" ELSE "wait"
    /\ UNCHANGED <<cursor_visible, timers, my_timer, family, call, next_id, next_timer>>

\* one round of wait_event's loop: run_return hands over one event, then
\* poll_event
WaitEventStep ==
    /\ pc = "wait"
    /\ native # <<>>
    /\ \E ok \in Answers :
        \E r \in {poll_event(run_return_one(Win), ok, <<>>)} :
        /\ Retrieved("wait_event", ok, r, returns_event(r), Some(Head(native)),
                     last.quiet)
        /\ pc' = IF returns_event(r) THEN "idle" ELSE "wait"
    /\ UNCHANGED <<cursor_visible, timers, my_timer, family, call, next_id, next_timer>>

\* wait_event_timeout up to its run_return; the timer thread is spawned
\* when the first poll_event returns None
WaitEventTimeout ==
    /\ pc = "idle"
    /\ next_timer < MaxTimers
    /\ \E ok \in Answers :
        LET r == poll_event(Win, ok, <<>>) IN
        /\ Retrieved("wait_event_timeout", ok, r, returns_event(r), None,
                     NothingWaiting)
        /\ IF returns_event(r)
           THEN UNCHANGED <<pc, my_timer, timers, next_timer>>
           ELSE /\ pc' = "timeout"
                /\ next_timer' = next_timer + 1
                /\ my_timer' = next_timer + 1
                /\ timers' = spawn(timers, next_timer + 1)
    /\ UNCHANGED <<cursor_visible, family, call, next_id>>

\* the rest of wait_event_timeout: run_return hands over one event, then
\* poll_event, whose result is returned
WaitEventTimeoutStep ==
    /\ pc = "timeout"
    /\ native # <<>>
    /\ \E ok \in Answers :
        \E r \in {poll_event(run_return_one(Win), ok, <<>>)} :
        Retrieved("wait_event_timeout", ok, r, TRUE, Some(Head(native)), last.quiet)
    /\ pc' = "idle"
    /\ UNCHANGED <<cursor_visible, timers, my_timer, family, call, next_id, next_timer>>

\* a variant whose send_event delivers nothing
send_wake_up_lost(q) == q

\* event_loop_proxy.send_event(UserEvent::WakeUp) of poll_events
send_wake_up(q) == Append(q, WakeUp(0))

\* poll_events, step by step. Its first two lines: the wake marker is sent.
\* poll_event calls it with an empty buffer.
PollEventsSend ==
    /\ pc = "idle"
    /\ events = <<>>
    /\ native' = send_wake_up(native)
    /\ pc' = "pump"
    /\ last' = Op("poll_events", Win, TRUE, FALSE, None, <<>>, None, hist, TRUE)
    /\ UNCHANGED <<exit_on_esc, should_close, automatic_close, is_capturing_cursor,
                   last_cursor_pos, mouse_relative, cursor_pos, last_key_pressed,
                   events, inner_size, cursor_visible, surface_size, timers,
                   my_timer, family, call, next_id, next_timer, hist>>

\* One call of the callback of run_return in poll_events: with
\* ControlFlow::Wait the event loop hands over the next event of its queue
\* and waits when there is none; the callback buffers the event if
\* to_static_event owns it and sets ControlFlow::Exit on a wake marker.
PollEventsCallback ==
    /\ pc = "pump"
    /\ native # <<>>
    /\ events' = events \o Statics(<<Head(native)>>)
    /\ native' = Tail(native)
    /\ pc' = IF IsWakeUp(Head(native)) THEN "idle" ELSE "pump"
    /\ last' = [last EXCEPT !.log = Append(@, [step |-> "callback", ev |-> Head(native)]),
                            !.returned = IsWakeUp(Head(native))]
    /\ UNCHANGED <<exit_on_esc, should_close, automatic_close, is_capturing_cursor,
                   last_cursor_pos, mouse_relative, cursor_pos, last_key_pressed,
                   inner_size, cursor_visible, surface_size, timers, my_timer,
                   family, call, next_id, next_timer, hist>>

\* a variant that forgets the pending relative motion
set_capture_cursor_clears(w, value, ok) ==
    IF value
    THEN fake_capture([w EXCEPT !.is_capturing_cursor = value,
                                !.mouse_relative = None], ok)
    ELSE [w EXCEPT !.is_capturing_cursor = value, !.mouse_relative = None]

\* a variant that forgets the last cursor position on entry
set_capture_cursor_rearm(w, value, ok) ==
    IF value
    THEN [w EXCEPT !.is_capturing_cursor = value, !.last_cursor_pos = None]
    ELSE [w EXCEPT !.is_capturing_cursor = value]

\* a variant that recenters when capture mode is left, too
set_capture_cursor_recenters(w, value, ok) ==
    fake_capture([w EXCEPT !.is_capturing_cursor = value], ok)

set_capture_cursor(w, value, ok) ==
    IF value
    THEN fake_capture([w EXCEPT !.is_capturing_cursor = value], ok)
    ELSE [w EXCEPT !.is_capturing_cursor = value]

\* set_capture_cursor(value), the platform answering ok if it is asked
SetCaptureCursorTo(value) ==
    /\ pc = "idle"
    /\ \E ok \in (IF value THEN BOOLEAN ELSE {TRUE}) :
        /\ SetWin(set_capture_cursor(Win, value, ok))
        /\ cursor_visible' = ~value
    /\ last' = NoOp
    /\ UNCHANGED <<timers, pc, my_timer, family, call, next_id, next_timer, hist>>

SetCaptureCursor == \E value \in BOOLEAN : SetCaptureCursorTo(value)

SetShouldClose ==
    /\ pc = "idle"
    /\ \E value \in BOOLEAN : SetWin([Win EXCEPT !.should_close = value])
    /\ last' = NoOp
    /\ UNCHANGED <<cursor_visible, timers, pc, my_timer, family, call, next_id,
                   next_timer, hist>>

SetExitOnEsc ==
    /\ pc = "idle"
    /\ \E value \in BOOLEAN : SetWin([Win EXCEPT !.exit_on_esc = value])
    /\ last' = NoOp
    /\ UNCHANGED <<cursor_visible, timers, pc, my_timer, family, call, next_id,
                   next_timer, hist>>

SetAutomaticClose ==
    /\ pc = "idle"
    /\ \E value \in BOOLEAN : SetWin([Win EXCEPT !.automatic_close = value])
    /\ last' = NoOp
    /\ UNCHANGED <<cursor_visible, timers, pc, my_timer, family, call, next_id,
                   next_timer, hist>>

----------------------------------------------------------------------------
\* Construction. A graphics API version is a record of the API's name and
\* the two numbers; a Result is Ok(value) or Err(error).

Version(api, major, minor) == [api |-> api, major |-> major, minor |-> minor]
opengl(major, minor) == Version("OpenGL", major, minor)
vulkan(major, minor) == Version("Vulkan", major, minor)
directx(major, minor) == Version("DirectX", major, minor)
metal(major, minor) == Version("Metal", major, minor)

Ok(x) == [ok |-> TRUE, value |-> x]
Err(e) == [ok |-> FALSE, error |-> e]

UnsupportedGraphicsApiError(found, expected) ==
    [type |-> "UnsupportedGraphicsApiError", found |-> found, expected |-> expected]

\* an error of the platform: of glutin or of winit
PlatformError(what) == [type |-> "PlatformError", what |-> what]

\* a variant that takes every API
graphics_api_from_settings_any(settings) ==
    Ok(IF IsSome(settings.graphics_api) THEN Unwrap(settings.graphics_api)
       ELSE opengl(3, 2))

graphics_api_from_settings(settings) ==
    LET api == IF IsSome(settings.graphics_api) THEN Unwrap(settings.graphics_api)
               ELSE opengl(3, 2)
    IN IF api.api # "OpenGL"
       THEN Err(UnsupportedGraphicsApiError(api.api, <<"OpenGL">>))
       ELSE Ok(api)

\* the context APIs that from_raw asks the display for, in order: the
\* version of the settings, then GLES, then OpenGL 2.1
ContextAttempts(api) ==
    <<[api |-> "OpenGl", version |-> Some(<<api.major, api.minor>>)],
      [api |-> "Gles", version |-> None],
      [api |-> "OpenGl", version |-> Some(<<2, 1>>)]>>

\* The answers of the platform to from_raw: whether the display is built,
\* the surface created, which of the three context attempts succeed, and
\* whether the context is made current and the swap interval set.
PlatformAnswers ==
    [display : BOOLEAN, surface : BOOLEAN, contexts : SUBSET {1, 2, 3},
     current : BOOLEAN, swap : BOOLEAN]

\* the window that from_raw returns
NewWindow(settings, context) ==
    [exit_on_esc |-> settings.exit_on_esc, should_close |-> FALSE,
     automatic_close |-> settings.automatic_close, cursor_pos |-> None,
     is_capturing_cursor |-> FALSE, last_cursor_pos |-> None,
     mouse_relative |-> None, last_key_pressed |-> None, events |-> <<>>,
     context |-> context]

\* GlutinWindow::from_raw, with the answers p of the platform
from_raw(settings, p) ==
    IF ~p.display THEN Err(PlatformError("display_builder.build"))
    ELSE IF ~p.surface THEN Err(PlatformError("create_window_surface"))
    ELSE LET api == graphics_api_from_settings(settings) IN
    IF ~api.ok THEN api
    ELSE LET attempts == ContextAttempts(api.value) IN
    IF p.contexts = {} THEN Err(PlatformError("create_context"))
    ELSE LET n == CHOOSE i \in p.contexts : \A j \in p.contexts : i <= j IN
    IF ~p.current THEN Err(PlatformError("make_current"))
    ELSE IF settings.vsync /\ ~p.swap THEN Err(PlatformError("set_swap_interval"))
    ELSE Ok(NewWindow(settings, attempts[n]))

\* the settings that the runs construct windows from
Settings ==
    [graphics_api : {None, Some(opengl(3, 2)), Some(opengl(4, 5)),
                     Some(vulkan(1, 0)), Some(directx(12, 0)), Some(metal(2, 0))},
     vsync : BOOLEAN, exit_on_esc : BOOLEAN, automatic_close : BOOLEAN]

\* GlutinWindow::new / from_raw: on Ok the caller has its window, on Err
\* it has none (pc = "failed")
FromRaw ==
    /\ pc = "new"
    /\ \E settings \in Settings, p \in PlatformAnswers :
        LET r == from_raw(settings, p) IN
        /\ call' = [fn |-> "from_raw", settings |-> settings, platform |-> p,
                    result |-> r]
        /\ pc' = IF r.ok THEN "idle" ELSE "failed"
        /\ exit_on_esc' = IF r.ok THEN r.value.exit_on_esc ELSE exit_on_esc
        /\ automatic_close' = IF r.ok THEN r.value.automatic_close ELSE automatic_close
    /\ UNCHANGED <<should_close, is_capturing_cursor, last_cursor_pos,
                   mouse_relative, cursor_pos, last_key_pressed, events, native,
                   inner_size, cursor_visible, surface_size, timers, my_timer,
                   family, next_id, next_timer, last, hist>>

----------------------------------------------------------------------------
\* The order of versions (graphics_api_version.rs): #[derive(Ord)] compares
\* the fields in the order of their declaration: api, major, minor.

\* the names of the APIs in the order of str: byte by byte
ApiNames == <<"DirectX", "Metal", "OpenGL", "Vulkan">>
StrLess(a, b) ==
    (CHOOSE i \in 1..Len(ApiNames) : ApiNames[i] = a)
        < (CHOOSE i \in 1..Len(ApiNames) : ApiNames[i] = b)

\* a variant that compares minor before major
VersionLessMinorFirst(a, b) ==
    IF a.api # b.api THEN StrLess(a.api, b.api)
    ELSE IF a.minor # b.minor THEN a.minor < b.minor
    ELSE a.major < b.major

\* `a < b` of two versions
VersionLess(a, b) ==
    IF a.api # b.api THEN StrLess(a.api, b.api)
    ELSE IF a.major # b.major THEN a.major < b.major
    ELSE a.minor < b.minor

\* the versions that the runs compare
Versions ==
    {Version(ApiNames[i], major, minor) :
        i \in 1..Len(ApiNames), major \in 0..MaxMajor, minor \in 0..MaxMinor}

\* `a < b`
CompareVersions ==
    /\ call.fn = "none"
    /\ \E a \in Versions, b \in Versions :
        call' = [fn |-> "lt", a |-> a, b |-> b, result |-> VersionLess(a, b)]
    /\ UNCHANGED <<exit_on_esc, should_close, automatic_close, is_capturing_cursor,
                   last_cursor_pos, mouse_relative, cursor_pos, last_key_pressed,
                   events, native, inner_size, cursor_visible, surface_size,
                   timers, pc, my_timer, family, next_id, next_timer, last, hist>>

----------------------------------------------------------------------------
\* Shader versions (shader_version.rs). The GLSL versions in the order of
\* the enum, which is the order that #[derive(Ord)] gives them.

GLSL == <<"V1_10", "V1_20", "V1_30", "V1_40", "V1_50", "V3_30",
          "V4_00", "V4_10", "V4_20", "V4_30", "V4_40", "V4_50">>
GLSLVersions == {GLSL[i] : i \in 1..Len(GLSL)}

\* the place of a version in the enum
Discriminant(v) == CHOOSE i \in 1..Len(GLSL) : GLSL[i] = v

\* `a < b` and `a <= b` of two GLSL versions
GLSLLess(a, b) == Discriminant(a) < Discriminant(b)
GLSLLessEq(a, b) == Discriminant(a) <= Discriminant(b)

\* Shaders(BTreeMap<V, &S>): the entries <<version, source>> in the order
\* of their versions, as the map iterates over them
ShadersNew == <<>>

\* BTreeMap::insert: the entry takes the place that its version has in the
\* order, and replaces the entry of the same version
RECURSIVE Insert(_, _, _)
Insert(map, version, source) ==
    IF map = <<>> THEN <<<<version, source>>>>
    ELSE IF Head(map)[1] = version THEN <<<<version, source>>>> \o Tail(map)
    ELSE IF GLSLLess(version, Head(map)[1]) THEN <<<<version, source>>>> \o map
    ELSE <<Head(map)>> \o Insert(Tail(map), version, source)

\* Iterator::skip_while and Iterator::take_while on the versions
RECURSIVE SkipWhileLess(_, _)
SkipWhileLess(map, low) ==
    IF map # <<>> /\ GLSLLess(Head(map)[1], low) THEN SkipWhileLess(Tail(map), low)
    ELSE map

RECURSIVE TakeWhileLessEq(_, _)
TakeWhileLessEq(map, v) ==
    IF map # <<>> /\ GLSLLessEq(Head(map)[1], v)
    THEN <<Head(map)>> \o TakeWhileLessEq(Tail(map), v)
    ELSE <<>>

\* Iterator::last().map(|(_, &s)| s)
LastSource(entries) ==
    IF entries = <<>> THEN None ELSE Some(entries[Len(entries)][2])

\* a variant that takes any shader up to the version asked for
pick_shader_any_low(self, shaders) ==
    LastSource(TakeWhileLessEq(SkipWhileLess(shaders, "V1_10"), self))

\* impl PickShader for GLSL
pick_shader(self, shaders) ==
    LET low == IF GLSLLess(self, "V1_50") THEN "V1_10" ELSE "V1_50"
    IN LastSource(TakeWhileLessEq(SkipWhileLess(shaders, low), self))

\* the sources that the runs register
Sources == {"a", "b"}

\* Shaders::set
ShadersSet ==
    /\ call.fn \in {"new", "set", "get"}
    /\ \E version \in GLSLVersions, source \in Sources :
        /\ \/ Len(call.map) < MaxShaders
           \/ \E i \in 1..Len(call.map) : call.map[i][1] = version
        /\ call' = [fn |-> "set", map |-> Insert(call.map, version, source),
                    version |-> version, result |-> None]
    /\ UNCHANGED <<exit_on_esc, should_close, automatic_close, is_capturing_cursor,
                   last_cursor_pos, mouse_relative, cursor_pos, last_key_pressed,
                   events, native, inner_size, cursor_visible, surface_size,
                   timers, pc, my_timer, family, next_id, next_timer, last, hist>>

\* Shaders::get
ShadersGet ==
    /\ call.fn \in {"new", "set", "get"}
    /\ \E version \in GLSLVersions :
        call' = [fn |-> "get", map |-> call.map, version |-> version,
                 result |-> pick_shader(version, call.map)]
    /\ UNCHANGED <<exit_on_esc, should_close, automatic_close, is_capturing_cursor,
                   last_cursor_pos, mouse_relative, cursor_pos, last_key_pressed,
                   events, native, inner_size, cursor_visible, surface_size,
                   timers, pc, my_timer, family, next_id, next_timer, last, hist>>

----------------------------------------------------------------------------
\* Specifications. Each draws its native events from one family and lets
\* the caller make the calls that bear on those events.

\* Keyboard events; the caller polls and waits and sets the close flags.
InitKeys == Init /\ family = "keys" /\ automatic_close = FALSE
NextKeys ==
    \/ NativeArrive
    \/ PollEvent
    \/ WaitEvent
    \/ WaitEventStep
    \/ SetShouldClose
    \/ SetExitOnEsc
SpecKeys == InitKeys /\ [][NextKeys]_vars

\* Cursor events; the caller polls and waits and toggles the capture mode.
InitCursor == Init /\ family = "cursor" /\ automatic_close = FALSE /\ exit_on_esc = FALSE
NextCursor ==
    \/ NativeArrive
    \/ PollEvent
    \/ WaitEvent
    \/ WaitEventStep
    \/ SetCaptureCursor
SpecCursor == InitCursor /\ [][NextCursor]_vars

\* Cursor moves and an event that handle_event does not recognize; the
\* caller polls and toggles the capture mode.
InitCapture == Init /\ family = "capture" /\ automatic_close = FALSE /\ exit_on_esc = FALSE
NextCapture ==
    \/ NativeArrive
    \/ PollEvent
    \/ SetCaptureCursor
SpecCapture == InitCapture /\ [][NextCapture]_vars

\* Window events of every kind that to_static_event does not own, a move
\* of the window and a move of the cursor, under the three retrieval calls.
InitStatic == Init /\ family = "static" /\ automatic_close = FALSE /\ exit_on_esc = FALSE
NextStatic ==
    \/ NativeArrive
    \/ TimerFire
    \/ PollEvent
    \/ WaitEvent
    \/ WaitEventStep
    \/ WaitEventTimeout
    \/ WaitEventTimeoutStep
SpecStatic == InitStatic /\ [][NextStatic]_vars

\* The events that bear on should_close and two that do not; the caller
\* polls, waits and sets should_close, exit_on_esc and automatic_close.
InitClose == Init /\ family = "close"
NextClose ==
    \/ NativeArrive
    \/ PollEvent
    \/ WaitEvent
    \/ WaitEventStep
    \/ SetShouldClose
    \/ SetExitOnEsc
    \/ SetAutomaticClose
SpecClose == InitClose /\ [][NextClose]_vars

\* Text events and a key press.
InitText == Init /\ family = "text" /\ automatic_close = FALSE
NextText ==
    \/ NativeArrive
    \/ PollEvent
    \/ WaitEvent
    \/ WaitEventStep
SpecText == InitText /\ [][NextText]_vars

\* Window events; the caller polls and waits and sets the close flags.
InitWindow == Init /\ family = "window" /\ exit_on_esc = FALSE
NextWindow ==
    \/ NativeArrive
    \/ PollEvent
    \/ WaitEvent
    \/ WaitEventStep
    \/ SetShouldClose
    \/ SetAutomaticClose
SpecWindow == InitWindow /\ [][NextWindow]_vars

\* Construction: the caller asks for a window once. Unless from_raw has
\* returned Ok there is no window (pc = "new", then "failed"); the
\* variables of the window then hold what from_raw would give them and are
\* not read.
NoWindow ==
    /\ exit_on_esc = FALSE /\ automatic_close = FALSE /\ should_close = FALSE
    /\ cursor_pos = None /\ is_capturing_cursor = FALSE /\ last_cursor_pos = None
    /\ mouse_relative = None /\ last_key_pressed = None /\ events = <<>>
    /\ native = <<>> /\ inner_size = InitialSize /\ surface_size = InitialSize
    /\ cursor_visible = TRUE /\ timers = {} /\ pc = "new" /\ my_timer = 0
    /\ family = "window" /\ next_id = 0 /\ next_timer = 0
    /\ last = NoOp /\ hist = NoHistory
InitBuild == NoWindow /\ call = NoCall
NextBuild == FromRaw
SpecBuild == InitBuild /\ [][NextBuild]_vars

\* A shader picker: Shaders::new, then calls of set and get. There is no
\* window.
InitShaders ==
    /\ NoWindow
    /\ call = [fn |-> "new", map |-> ShadersNew, version |-> "V1_10", result |-> None]
NextShaders ==
    \/ ShadersSet
    \/ ShadersGet
SpecShaders == InitShaders /\ [][NextShaders]_vars

\* Comparisons of versions. There is no window.
InitVersions == NoWindow /\ call = NoCall
NextVersions == CompareVersions
SpecVersions == InitVersions /\ [][NextVersions]_vars

\* The three retrieval calls and the timer threads.
InitSched == Init /\ family = "sched" /\ automatic_close = FALSE /\ exit_on_esc = FALSE
NextSched ==
    \/ NativeArrive
    \/ TimerFire
    \/ PollEvent
    \/ WaitEvent
    \/ WaitEventStep
    \/ WaitEventTimeout
    \/ WaitEventTimeoutStep
SpecSched == InitSched /\ [][NextSched]_vars

\* wait_event and wait_event_timeout with their timer threads, and the
\* platform's promise to wait_event: run_return hands over an event of the
\* queue as soon as there is one, so a blocked wait_event goes through its
\* loop when the queue is not empty.
InitWait == Init /\ family = "wait" /\ automatic_close = FALSE /\ exit_on_esc = FALSE
NextWait ==
    \/ NativeArrive
    \/ TimerFire
    \/ WaitEvent
    \/ WaitEventStep
    \/ WaitEventTimeout
    \/ WaitEventTimeoutStep
SpecWaitFair == InitWait /\ [][NextWait]_vars /\ WF_vars(WaitEventStep)

\* Events that handle_event does not recognize, among presses and releases
\* of one key.
InitSkip == Init /\ family = "skip" /\ automatic_close = FALSE /\ exit_on_esc = FALSE
NextSkip ==
    \/ NativeArrive
    \/ PollEvent
    \/ WaitEvent
    \/ WaitEventStep
SpecSkip == InitSkip /\ [][NextSkip]_vars

\* The same calls, with the promise of the scheduler as well: a timer
\* thread that has been spawned sleeps its timeout and gets to send its
\* marker.
NextTimeout ==
    \/ NativeArrive
    \/ TimerFire
    \/ WaitEventTimeout
    \/ WaitEventTimeoutStep
SpecTimeoutFair ==
    /\ InitWait
    /\ [][NextTimeout]_vars
    /\ WF_vars(TimerFire)
    /\ WF_vars(WaitEventTimeoutStep)

\* wait_event_timeout and its timer threads, which outlive the window.
InitTimers == Init /\ family = "sched" /\ automatic_close = FALSE /\ exit_on_esc = FALSE
NextTimers ==
    \/ NativeArrive
    \/ TimerFire
    \/ TimerFireGone
    \/ PollEvent
    \/ WaitEventTimeout
    \/ WaitEventTimeoutStep
    \/ Drop
SpecTimers == InitTimers /\ [][NextTimers]_vars

\* poll_events step by step, between calls of wait_event_timeout, whose
\* timer threads send wake markers of their own; run_return calls the
\* callback as long as the queue is not empty.
InitPump == Init /\ family = "pump" /\ automatic_close = FALSE /\ exit_on_esc = FALSE
NextPump ==
    \/ NativeArrive
    \/ TimerFire
    \/ PollEvent
    \/ WaitEventTimeout
    \/ WaitEventTimeoutStep
    \/ PollEventsSend
    \/ PollEventsCallback
SpecPumpFair == InitPump /\ [][NextPump]_vars /\ WF_vars(PollEventsCallback)

----------------------------------------------------------------------------
\* Properties. They speak of the last operation (last), of the window as
\* that operation left it, and of what the run did before (last.hist0).

Retrieval == last.op \in {"poll_event", "wait_event", "wait_event_timeout"}

LogIndices == 1..Len(last.log)

\* the call returned the input event x to its caller, and x is what the
\* i-th entry of its log produced
ReturnedBy(i, x) ==
    /\ last.log[i].out = Some(x)
    /\ ~last.log[i].unknown
    /\ i = Len(last.log)
    /\ last.returned
    /\ last.ret = Some(EventInput(x))

\* the i-th entry produced nothing and the call went on to the next event
Dropped(i) ==
    /\ last.log[i].out = None
    /\ last.log[i].unknown
    /\ i < Len(last.log)

\* C1: a Pressed event for key K that is classified while K is held (the
\* latest classified press was of K and no Released event for K came since)
\* is dropped as unrecognized; a Pressed event for K classified when K is
\* not held, as after a Released event for K, is returned as
\* Button(Press, K).
C1_PressOncePerHold ==
    Retrieval =>
        \A i \in LogIndices :
            IsKey(last.log[i], "Pressed") =>
                LET K == KeyOf(last.log[i])
                    h == HeldAfter(last.hist0.held, last.log, i - 1)
                IN IF h = Some(K)
                   THEN Dropped(i)
                   ELSE ReturnedBy(i, ButtonArgs("Press", Keyboard(K), Some(30)))

\* a call that drops the second press of a held key and then returns the
\* Released event of that key
C1_Witness ==
    /\ Retrieval
    /\ \E i \in LogIndices :
        /\ IsKey(last.log[i], "Pressed")
        /\ HeldAfter(last.hist0.held, last.log, i - 1) = Some(KeyOf(last.log[i]))
        /\ Dropped(i)
        /\ IsKey(last.log[i + 1], "Released")
        /\ KeyOf(last.log[i + 1]) = KeyOf(last.log[i])
    /\ hist.held = None

\* C2: the input events that the retrieval calls return for native events
\* come in the order in which those native events arrived; every other
\* returned event is a MouseRelative, returned by the call right after the
\* call that returned the MouseCursor of the move it is the delta of.
C2_ArrivalOrder ==
    (Retrieval /\ last.returned /\ IsSome(last.ret)) =>
        LET f == Final(last.log) IN
        /\ last.ret = Some(EventInput(Unwrap(f.out)))
        /\ IF f.step = "handle"
           THEN /\ IsSome(f.ev)
                /\ ~IsWakeUp(Unwrap(f.ev))
                /\ Unwrap(f.ev).id > last.hist0.ret_id
           ELSE /\ f.step = "pre_pop"
                /\ IsSome(last.hist0.cursor)
                /\ IsSome(Unwrap(last.hist0.cursor).from)
                /\ LET c == Unwrap(last.hist0.cursor)
                       p == Unwrap(c.from)
                   IN f.out = Some(MouseRelative(<<c.to[1] - p[1], c.to[2] - p[2]>>))

\* wait_event_timeout returns the delta of the second of two moves that
\* poll_event or wait_event has returned
C2_Witness ==
    /\ Retrieval
    /\ last.op = "wait_event_timeout"
    /\ last.returned
    /\ Final(last.log).step = "pre_pop"
    /\ Unwrap(Final(last.log).out).v # <<0, 0>>
    /\ last.hist0.ret_id = 2

\* the pumps that the last call made
Pumps == SelectSeq(last.log, LAMBDA entry : entry.step = "pump")

\* the event loop's queue was empty and no synthetic event was pending when
\* the last call began
QuietSource ==
    /\ last.pre.native = <<>>
    /\ last.pre.mouse_relative = None
    /\ last.pre.cursor_pos = None

\* C3 as stated: poll_event on an empty native source with no synthetic
\* event pending returns None after a single pump that consumes only the
\* wake marker that the pump has sent.
C3_AsStated ==
    (last.op = "poll_event" /\ QuietSource) =>
        /\ last.ret = None
        /\ Pumps = <<[step |-> "pump", taken |-> 1, own |-> TRUE]>>

\* C3: poll_event returns without taking an event from a blocking
\* run_return; when the native source holds no events, no synthetic event
\* is pending and the window's buffer of drained events is empty, it
\* returns None after a single pump that consumes only the wake marker
\* that the pump has sent, and it classifies nothing but that marker.
C3_EmptyPollReturnsNone ==
    last.op = "poll_event" =>
        /\ last.returned
        /\ last.took = None
        /\ (QuietSource /\ last.pre.events = <<>>) =>
              /\ last.ret = None
              /\ Len(last.log) = 2
              /\ last.log[1] = [step |-> "pump", taken |-> 1, own |-> TRUE]
              /\ IsHandleOf(last.log[2], "UserEvent")
              /\ Unwrap(last.log[2].ev) = WakeUp(0)
              /\ last.log[2].out = None
              /\ ~last.log[2].unknown
              /\ events = <<>>
              /\ native = <<>>

\* poll_event on an empty source and an empty buffer, after the calls
\* before it have returned two native events
C3_Witness ==
    /\ last.op = "poll_event"
    /\ QuietSource
    /\ last.pre.events = <<>>
    /\ last.ret = None
    /\ last.hist0.ret_id = 2

\* C4 as stated: when no native event waits or arrives from the start of a
\* wait_event_timeout call to its end, whatever the calls before it, the
\* call returns None only on the wake marker of the timer thread that this
\* same call has spawned (my_timer), which has then slept its timeout.
C4_AsStated ==
    (/\ last.op = "wait_event_timeout"
     /\ last.returned
     /\ last.ret = None
     /\ last.quiet) =>
        /\ last.took = Some(WakeUp(my_timer))
        /\ my_timer \notin timers

\* the native event e, classified by the window as it is now, gives an
\* input event
Classifies(e) ==
    /\ ~IsWakeUp(e)
    /\ IsSome(to_static_event(e))
    /\ IsSome(handle_event(Win, to_static_event(e), TRUE).out)

ClassifiableWaiting == \E i \in 1..Len(native) : Classifies(native[i])

\* what wait_event returns is an input event: a pending synthetic event,
\* or what handle_event has made of a native event that is no wake marker
WaitEventReturnsInput ==
    (last.op = "wait_event" /\ last.returned) =>
        LET f == Final(last.log) IN
        /\ IsSome(last.ret)
        /\ IsSome(f.out)
        /\ last.ret = Some(EventInput(Unwrap(f.out)))
        /\ \/ f.step = "pre_pop"
           \/ /\ f.step = "handle"
              /\ ~f.unknown
              /\ IsSome(f.ev)
              /\ ~IsWakeUp(Unwrap(f.ev))

\* wait_event stays blocked as long as poll_event gives it nothing
WaitEventKeepsWaiting ==
    (last.op = "wait_event" /\ ~last.returned) => (pc = "wait" /\ last.ret = None)

Logical(position) == <<position[1] \div ScaleFactor, position[2] \div ScaleFactor>>

\* the i-th entry of the log is a handle_event of a CursorMoved
IsMove(i) == IsHandleOf(last.log[i], "CursorMoved")

\* the first handle_event after the i-th entry of the log
RECURSIVE NextHandle(_)
NextHandle(i) == IF last.log[i + 1].step = "handle" THEN i + 1 ELSE NextHandle(i + 1)

\* C6: in capture mode with last_cursor_pos = None, a CursorMoved that
\* poll_event takes from the buffer never reaches handle_event, so no
\* MouseCursor and no MouseRelative is made of it: poll_event absorbs it as
\* the seed, which sets last_cursor_pos to its logical position, and goes
\* on with the next event, which is what the call returns for.
C6_SeedMoveAbsorbed ==
    Retrieval =>
        \A i \in LogIndices :
            /\ IsMove(i) =>
                  ~(/\ last.log[i].before.is_capturing_cursor
                    /\ last.log[i].before.last_cursor_pos = None)
            /\ last.log[i].step = "seed" =>
                  /\ i < Len(last.log)
                  /\ LET n == last.log[NextHandle(i)] IN
                     /\ n.ev # Some(last.log[i].ev)
                     /\ n.before.is_capturing_cursor
                     /\ n.before.last_cursor_pos =
                           Some(Logical(last.log[i].ev.position))

\* a call in capture mode absorbs a move to (3, 1) as the seed and returns
\* None, since nothing but the wake marker is behind the move
C6_Witness ==
    /\ Retrieval
    /\ last.pre.is_capturing_cursor
    /\ last.pre.last_cursor_pos = None
    /\ \E i \in LogIndices :
        /\ last.log[i].step = "seed"
        /\ last.log[i].ev.position = <<6, 2>>
    /\ last.ret = None
    /\ last_cursor_pos = Some(<<3, 1>>)

\* the logical centre of the window w
Centre(w) == <<(w.inner_size[1] \div ScaleFactor) \div 2,
               (w.inner_size[2] \div ScaleFactor) \div 2>>

\* C7: in capture mode with last_cursor_pos = p, handle_event of a
\* CursorMoved to the logical position q gives MouseRelative(q - p), which
\* the call returns, and queues no other event; it leaves last_cursor_pos
\* at the logical centre of the window when the platform accepts the new
\* pointer position, and at q when it refuses.
C7_CapturedMoveIsRelative ==
    Retrieval =>
        \A i \in LogIndices :
            (/\ IsMove(i)
             /\ last.log[i].before.is_capturing_cursor
             /\ IsSome(last.log[i].before.last_cursor_pos)) =>
                LET e == last.log[i]
                    p == Unwrap(e.before.last_cursor_pos)
                    q == Logical(Unwrap(e.ev).position)
                IN /\ ReturnedBy(i, MouseRelative(<<q[1] - p[1], q[2] - p[2]>>))
                   /\ e.after.mouse_relative = None
                   /\ e.after.cursor_pos = None
                   /\ e.after.last_cursor_pos =
                         IF last.ok THEN Some(Centre(e.before)) ELSE Some(q)

\* a move from (0, 0) to (3, 1) in capture mode, after which the pointer
\* is back at the centre (2, 1)
C7_Witness ==
    /\ Retrieval
    /\ last.ok
    /\ \E i \in LogIndices :
        /\ IsMove(i)
        /\ last.log[i].before.is_capturing_cursor
        /\ last.log[i].before.last_cursor_pos = Some(<<0, 0>>)
        /\ Unwrap(last.log[i].ev).position = <<6, 2>>
        /\ ReturnedBy(i, MouseRelative(<<3, 1>>))
    /\ last_cursor_pos = Some(<<2, 1>>)

\* outside capture mode handle_event of a CursorMoved gives the
\* MouseCursor of its logical position, which the call returns
MoveIsMouseCursor ==
    Retrieval =>
        \A i \in LogIndices :
            (IsMove(i) /\ ~last.log[i].before.is_capturing_cursor) =>
                ReturnedBy(i, MouseCursor(Logical(Unwrap(last.log[i].ev).position)))

\* a retrieval call that begins with a relative motion pending returns
\* that motion at once and leaves none pending
PendingRelativeReturned ==
    (Retrieval /\ IsSome(last.pre.mouse_relative) /\ last.pre.cursor_pos = None) =>
        /\ last.returned
        /\ last.ret = Some(EventInput(MouseRelative(Unwrap(last.pre.mouse_relative))))
        /\ Len(last.log) = 1
        /\ mouse_relative = None

\* a step that changes the capture mode leaves the pending relative motion
\* as it is
ToggleKeepsPending ==
    (is_capturing_cursor' # is_capturing_cursor) => (mouse_relative' = mouse_relative)

\* C8: outside capture mode, as after set_capture_cursor(false), every
\* classified CursorMoved is returned as the MouseCursor of its logical
\* position; a relative motion that is pending when the capture mode is
\* set stays pending, and the next retrieval call returns it, once.
C8_CaptureOffMovesAndPendingDelta ==
    /\ [](MoveIsMouseCursor /\ PendingRelativeReturned)
    /\ [][ToggleKeepsPending]_vars

\* a retrieval call returns a relative motion that was pending while the
\* capture mode was set: the call begins in capture mode, where no move
\* leaves a motion pending
C8_Witness ==
    /\ Retrieval
    /\ last.pre.is_capturing_cursor
    /\ last.pre.mouse_relative = Some(<<3, 1>>)
    /\ last.ret = Some(EventInput(MouseRelative(<<3, 1>>)))
    /\ mouse_relative = None

\* the i-th entry of the log is a handle_event of a Pressed event whose key
\* maps to Escape
IsEscapePress(i) == IsKey(last.log[i], "Pressed") /\ KeyOf(last.log[i]) = "Escape"

\* C9: when a retrieval call classifies a Pressed event whose key maps to
\* Escape with exit_on_esc true, should_close is true from then on to the
\* end of the call and after it, whether the press is returned or dropped
\* as a repeat; with exit_on_esc false the press leaves should_close as it
\* was.
C9_EscapeCloses ==
    Retrieval =>
        \A i \in LogIndices :
            IsEscapePress(i) =>
                IF last.log[i].before.exit_on_esc
                THEN /\ last.log[i].after.should_close
                     /\ \A j \in i..Len(last.log) :
                          last.log[j].step = "handle" => last.log[j].after.should_close
                     /\ should_close
                ELSE last.log[i].after.should_close = last.log[i].before.should_close

\* with exit_on_esc true and should_close false, a press of Escape that is
\* dropped as a repeat sets should_close
C9_Witness ==
    /\ Retrieval
    /\ \E i \in LogIndices :
        /\ IsEscapePress(i)
        /\ last.log[i].before.exit_on_esc
        /\ ~last.log[i].before.should_close
        /\ Dropped(i)
    /\ should_close

\* C10: handle_event of ReceivedCharacter(ch) gives one Text event, which
\* the call returns, whatever key the key-repeat slot holds: Text("") when
\* ch is U+007F, U+001B, U+0008, CR, LF or TAB, Text(ch) otherwise; the
\* slot stays as it was.
C10_CharacterIsText ==
    Retrieval =>
        \A i \in LogIndices :
            IsHandleOf(last.log[i], "ReceivedCharacter") =>
                LET ch == Unwrap(last.log[i].ev).ch IN
                /\ ReturnedBy(i, Text(IF ch \in {127, 27, 8, 13, 10, 9}
                                      THEN <<>> ELSE <<ch>>))
                /\ last.log[i].after = last.log[i].before

\* with a key held in the key-repeat slot, a call returns Text("") for a
\* backspace
C10_Witness ==
    /\ Retrieval
    /\ IsSome(last.pre.last_key_pressed)
    /\ \E i \in LogIndices :
        /\ IsHandleOf(last.log[i], "ReceivedCharacter")
        /\ Unwrap(last.log[i].ev).ch = 8
        /\ ReturnedBy(i, Text(<<>>))

\* the i-th entry of the log is a handle_event of a Resized event whose
\* width or height is zero
IsZeroResize(i) ==
    /\ IsHandleOf(last.log[i], "Resized")
    /\ \/ Unwrap(last.log[i].ev).size[1] = 0
       \/ Unwrap(last.log[i].ev).size[2] = 0

\* C11 as stated: handle_event of a Resized event whose width or height is
\* zero leaves the surface as it is, and the call returns the Resize event
\* of the window size and the draw size.
C11_AsStated ==
    Retrieval =>
        \A i \in LogIndices :
            IsZeroResize(i) =>
                LET e == last.log[i] IN
                /\ e.after.surface_size = e.before.surface_size
                /\ ReturnedBy(i, ResizeArgs(Logical(e.before.inner_size),
                                            Unwrap(e.ev).size))

\* C12: a poll_event that is entered with the pending cursor position or
\* mouse_relative set returns that synthetic event, the MouseCursor of the
\* pending position if there is one and the MouseRelative otherwise; it
\* clears that slot only, makes no pump, classifies nothing, and leaves the
\* buffer and the event loop's queue as they are.
C12_PendingSyntheticFirst ==
    (/\ Retrieval
     /\ last.took = None
     /\ IsSome(last.pre.cursor_pos) \/ IsSome(last.pre.mouse_relative)) =>
        /\ last.returned
        /\ last.ret = Some(EventInput(
               IF IsSome(last.pre.cursor_pos)
               THEN MouseCursor(Unwrap(last.pre.cursor_pos))
               ELSE MouseRelative(Unwrap(last.pre.mouse_relative))))
        /\ last.log = <<[step |-> "pre_pop", out |-> Some(last.ret[1].input)]>>
        /\ Win = IF IsSome(last.pre.cursor_pos)
                 THEN [last.pre EXCEPT !.cursor_pos = None]
                 ELSE [last.pre EXCEPT !.mouse_relative = None]

\* a call entered with a relative motion pending, events in the buffer and
\* an event in the queue returns the motion and leaves buffer and queue
C12_Witness ==
    /\ Retrieval
    /\ last.took = None
    /\ IsSome(last.pre.mouse_relative)
    /\ Len(last.pre.events) >= 2
    /\ last.pre.native # <<>>
    /\ events = last.pre.events
    /\ native = last.pre.native
    /\ mouse_relative = None

\* C13: in every reachable state last_cursor_pos is None only if
\* poll_event has seen no CursorMoved so far. (The claim allows one more
\* case, a capture mode just entered with no move seen since; the code
\* never sets last_cursor_pos back to None, so that case needs no
\* allowance.)
C13_NoneOnlyBeforeFirstMove ==
    (last_cursor_pos = None) => ~hist.moved

\* capture mode is on, a call has returned an event that is no move, and
\* last_cursor_pos is still None
C13_Witness ==
    /\ Retrieval
    /\ IsSome(last.ret)
    /\ is_capturing_cursor
    /\ last_cursor_pos = None
    /\ ~hist.moved

\* the settings of the last from_raw ask for an API that is not OpenGL
AsksOtherApi ==
    /\ call.fn = "from_raw"
    /\ IsSome(call.settings.graphics_api)
    /\ Unwrap(call.settings.graphics_api).api # "OpenGL"

\* the result of the last from_raw is the UnsupportedGraphicsApiError that
\* names the API asked for and expects OpenGL
FailsUnsupported ==
    call.result = Err([type |-> "UnsupportedGraphicsApiError",
                       found |-> Unwrap(call.settings.graphics_api).api,
                       expected |-> <<"OpenGL">>])

\* with no API in the settings the first context asked for is OpenGL 3.2,
\* and it is the context of the window when the platform grants it; the
\* window has the context of a later attempt otherwise
DefaultsToOpenGL32 ==
    (call.fn = "from_raw" /\ call.settings.graphics_api = None /\ call.result.ok) =>
        IF 1 \in call.platform.contexts
        THEN call.result.value.context =
                [api |-> "OpenGl", version |-> Some(<<3, 2>>)]
        ELSE call.result.value.context \in
                {[api |-> "Gles", version |-> None],
                 [api |-> "OpenGl", version |-> Some(<<2, 1>>)]}

\* C14 as stated: from_raw with settings that ask for an API other than
\* OpenGL fails with the UnsupportedGraphicsApiError (found: the API asked
\* for, expected: OpenGL) and gives no window; with no API in the settings
\* OpenGL 3.2 is asked for.
C14_AsStated ==
    /\ AsksOtherApi => (FailsUnsupported /\ pc = "failed")
    /\ DefaultsToOpenGL32

\* C14: from_raw with settings that ask for an API other than OpenGL
\* gives no window; when the platform has built the display and created
\* the surface, the error is the UnsupportedGraphicsApiError (found: the
\* API asked for, expected: OpenGL), otherwise it is the platform's. With
\* no API in the settings OpenGL 3.2 is asked for.
C14_UnsupportedApiFails ==
    /\ AsksOtherApi =>
          /\ ~call.result.ok
          /\ pc = "failed"
          /\ (call.platform.display /\ call.platform.surface) => FailsUnsupported
          /\ ~(call.platform.display /\ call.platform.surface) =>
                call.result.error.type = "PlatformError"
    /\ DefaultsToOpenGL32

\* from_raw fails for Vulkan on a platform that would grant everything
C14_Witness ==
    /\ AsksOtherApi
    /\ Unwrap(call.settings.graphics_api) = [api |-> "Vulkan", major |-> 1, minor |-> 0]
    /\ call.platform = [display |-> TRUE, surface |-> TRUE, contexts |-> {1, 2, 3},
                        current |-> TRUE, swap |-> TRUE]
    /\ FailsUnsupported
    /\ pc = "failed"

\* the versions w registered in the picker with low <= w <= v, where low
\* is V1_50 when v >= V1_50 and V1_10 otherwise
Compatible(map, v) ==
    LET low == IF Discriminant(v) >= 5 THEN 5 ELSE 1
    IN {i \in 1..Len(map) :
           /\ low <= Discriminant(map[i][1])
           /\ Discriminant(map[i][1]) <= Discriminant(v)}

\* C15: Shaders::get(v) returns the source registered for the greatest
\* version w with low <= w <= v, where low is V1_50 when v >= V1_50 and
\* V1_10 otherwise, and None when no such version is registered; so a
\* request for V1_50 or above never returns the source of a version below
\* V1_50.
C15_PickShader ==
    call.fn = "get" =>
        LET c == Compatible(call.map, call.version) IN
        /\ (c = {}) => call.result = None
        /\ (c # {}) =>
              \E i \in c :
                  /\ \A j \in c : Discriminant(call.map[j][1]) <= Discriminant(call.map[i][1])
                  /\ call.result = Some(call.map[i][2])
        /\ (Discriminant(call.version) >= 5 /\ IsSome(call.result)) =>
              \E i \in 1..Len(call.map) :
                  /\ call.map[i][2] = Unwrap(call.result)
                  /\ Discriminant(call.map[i][1]) >= 5

\* with sources for V1_40 and V4_00, get(V3_30) returns None: V1_40 is
\* below V1_50 and V4_00 is above the version asked for
C15_Witness ==
    /\ call.fn = "get"
    /\ call.map = <<<<"V1_40", "a">>, <<"V4_00", "b">>>>
    /\ call.version = "V3_30"
    /\ call.result = None

\* C16: for two versions of the same API, a < b exactly when a's major
\* is less than b's, or the majors are equal and a's minor is less than
\* b's; so opengl(3, 2) < opengl(4, 0).
C16_VersionOrder ==
    (call.fn = "lt" /\ call.a.api = call.b.api) =>
        (call.result <=>
            \/ call.a.major < call.b.major
            \/ call.a.major = call.b.major /\ call.a.minor < call.b.minor)

\* opengl(3, 2) < opengl(4, 0), where the minor numbers are the other way
\* round
C16_Witness ==
    /\ call.fn = "lt"
    /\ call.a = [api |-> "OpenGL", major |-> 3, minor |-> 2]
    /\ call.b = [api |-> "OpenGL", major |-> 4, minor |-> 0]
    /\ call.result

\* the buffered event e, classified by the window as it is now, gives an
\* input event
BufferClassifies(e) ==
    /\ ~IsWakeUp(e)
    /\ IsSome(handle_event(Win, Some(e), TRUE).out)

\* C17 as stated: when poll_event returns None, no native event in the
\* window's buffer would classify to an input event.
C17_AsStated ==
    (last.op = "poll_event" /\ last.returned /\ last.ret = None) =>
        \A i \in 1..Len(events) : ~BufferClassifies(events[i])

\* the events of q that are no wake markers
NonMarkers(q) == SelectSeq(q, LAMBDA e : ~IsWakeUp(e))

\* the last call began with poll_event, which found nothing pending and an
\* empty buffer and so called poll_events on the window as the call found it
FirstPump ==
    /\ Retrieval
    /\ last.took = None
    /\ last.log # <<>>
    /\ last.log[1].step = "pump"

\* C18 as stated: when poll_events returns, the buffer has gained every
\* event with an ownable payload that was in the event loop's queue when
\* the pump sent its wake marker, in the order of arrival, whatever wake
\* markers of earlier timers the queue held.
C18_AsStated ==
    FirstPump =>
        NonMarkers(poll_events(last.pre).events)
            = NonMarkers(last.pre.events) \o Statics(NonMarkers(last.pre.native))

\* the events that the callbacks of the last poll_events were given
Drained == [i \in 1..Len(last.log) |-> last.log[i].ev]

\* the wake markers of poll_events in q
OwnMarkers(q) == Len(SelectSeq(q, LAMBDA e : e = WakeUp(0)))

\* poll_events has sent one wake marker, which is in the queue until a
\* callback gets it; it goes on as long as no wake marker was observed and
\* returns when one is; what it leaves in the buffer is what poll_events,
\* taken as one step, gives, whatever arrived while it ran
PollEventsStops ==
    last.op = "poll_events" =>
        /\ OwnMarkers(native) + OwnMarkers(Drained) = OwnMarkers(last.pre.native) + 1
        /\ \A i \in 1..Len(last.log) : IsWakeUp(Drained[i]) <=> (i = Len(last.log) /\ last.returned)
        /\ last.returned <=> (pc = "idle")
        /\ ~last.returned => \E i \in 1..Len(native) : IsWakeUp(native[i])
        /\ last.returned =>
              /\ events = poll_events(last.pre).events
              /\ events = last.pre.events \o Statics(Drained)

\* C19: poll_events always terminates: it sends one wake marker before it
\* drains, it stops as soon as a callback has observed a wake marker, and
\* it returns also when the queue held no event when it was called.
C19_PollEventsTerminates ==
    /\ []PollEventsStops
    /\ (pc = "pump") ~> (pc = "idle")

\* poll_events has returned from a queue that was empty when it was called,
\* with its own marker as the only event drained
C19_Witness ==
    /\ last.op = "poll_events"
    /\ last.returned
    /\ last.pre.native = <<>>
    /\ Drained = <<WakeUp(0)>>
    /\ pc = "idle"

\* the native events that an entry of the log took from the buffer
TakenOf(entry) ==
    IF entry.step = "seed" THEN <<entry.ev>>
    ELSE IF entry.step = "handle" /\ IsSome(entry.ev) /\ ~IsWakeUp(Unwrap(entry.ev))
         THEN <<Unwrap(entry.ev)>>
         ELSE <<>>

RECURSIVE Taken(_)
Taken(log) == IF log = <<>> THEN <<>> ELSE TakenOf(Head(log)) \o Taken(Tail(log))

\* the events of q that are no wake markers and that to_static_event owns
Own(q) == Statics(NonMarkers(q))

IsPrefix(a, b) == Len(a) <= Len(b) /\ SubSeq(b, 1, Len(a)) = a

\* the events of q are in the order of their arrival, each once
Increasing(q) == \A i \in 1..(Len(q) - 1) : q[i].id < q[i + 1].id

\* the i-th entry of the log is a handle_event of the wake marker of a
\* timer thread whose wait_event_timeout call returned before this one
IsLateWakeUp(i) ==
    /\ IsHandleOf(last.log[i], "UserEvent")
    /\ Unwrap(last.log[i].ev).tid >= 1
    /\ \/ last.op # "wait_event_timeout"
       \/ last.took = None
       \/ Unwrap(last.log[i].ev).tid # my_timer

\* C20: a retrieval call, whatever wake markers of earlier timers it
\* meets, takes the native events that waited in the order of their
\* arrival, each once, and leaves the others waiting in that order; the
\* handle_event of a late wake marker gives no input event and leaves the
\* window as it is; the call's classification ends at it with None.
C20_LateWakeUpLosesNothing ==
    Retrieval =>
        /\ Increasing(Taken(last.log) \o Own(events \o native))
        /\ IsPrefix(Own(last.pre.events \o last.pre.native),
                    Taken(last.log) \o Own(events \o native))
        /\ \A i \in LogIndices :
              IsLateWakeUp(i) =>
                  /\ last.log[i].out = None
                  /\ ~last.log[i].unknown
                  /\ last.log[i].after = last.log[i].before
                  /\ i = Len(last.log)
                  /\ last.ret = None

\* poll_event ends at the wake marker of a timer whose call has returned,
\* while a native event that arrived after the marker waits in the queue
C20_Witness ==
    /\ last.op = "poll_event"
    /\ last.log # <<>>
    /\ IsLateWakeUp(Len(last.log))
    /\ Own(last.pre.native) # <<>>
    /\ Own(native) = Own(last.pre.native)

\* the wake markers of timer t in q
MarkersOf(q, t) == Len(SelectSeq(q, LAMBDA e : e = WakeUp(t)))

\* this step is the first part of a wait_event_timeout call
IsTimeoutCall == pc = "idle" /\ last'.op = "wait_event_timeout"

\* all that a step can change apart from the set of sleeping timers
NoTimers ==
    <<exit_on_esc, should_close, automatic_close, is_capturing_cursor,
      last_cursor_pos, mouse_relative, cursor_pos, last_key_pressed, events,
      native, inner_size, cursor_visible, surface_size, pc, my_timer, family,
      next_id, next_timer, last, hist, call>>

TimerSteps ==
    \* a call whose first poll_event returns an event spawns no thread,
    \* one whose poll returns None spawns one and leaves the others asleep
    /\ IsTimeoutCall =>
          IF IsSome(last'.ret)
          THEN timers' = timers /\ pc' = "idle"
          ELSE /\ timers \subseteq timers'
               /\ Cardinality(timers' \ timers) = 1
               /\ pc' = "timeout"
    \* nothing else spawns a thread
    /\ (timers' \ timers # {}) => IsTimeoutCall
    \* a thread ends only by sending its marker once, after its sleep; when
    \* the send fails nothing else changes
    /\ (timers \ timers' # {}) =>
          \E t \in timers :
              /\ timers' = timers \ {t}
              /\ IF pc = "dropped"
                 THEN UNCHANGED NoTimers
                 ELSE native' = Append(native, WakeUp(t))
    \* a marker of a timer enters the queue only when its thread ends
    /\ \A t \in 1..MaxTimers :
          MarkersOf(native', t) > MarkersOf(native, t) => (t \in timers /\ t \notin timers')

\* a sleeping timer has sent nothing, and no timer has sent twice
OneMarkerEach ==
    \A t \in 1..MaxTimers :
        /\ MarkersOf(native \o events, t) <= 1
        /\ t \in timers => MarkersOf(native \o events, t) = 0

\* C21: a wait_event_timeout call whose first poll_event returns None
\* spawns exactly one timer thread, and a call whose first poll_event
\* returns an event spawns none; a timer thread sends one wake marker
\* after its sleep, no step cancels a timer or merges it with an earlier
\* one, and a send that fails changes nothing.
C21_OneTimerPerEmptyCall ==
    /\ [][TimerSteps]_vars
    /\ []OneMarkerEach

\* two timer threads of two calls sleep at the same time
C21_Witness ==
    /\ timers = {1, 2}
    /\ last.op = "wait_event_timeout"
    /\ my_timer = 2

\* the log is that of one poll_event: nothing but pumps, the seed move and
\* unrecognized events before the entry it returned from
OnePollEvent(log) ==
    /\ log # <<>>
    /\ \A i \in 1..Len(log) :
          IF i < Len(log)
          THEN \/ log[i].step \in {"pump", "seed"}
               \/ log[i].step = "handle" /\ log[i].unknown
          ELSE \/ log[i].step = "pre_pop"
               \/ log[i].step = "handle" /\ ~log[i].unknown

\* after its first poll_event has returned None, wait_event_timeout is
\* blocked in run_return with its timer spawned; once run_return has handed
\* over one event it has made one poll_event and returned its result
TimeoutSinglePass ==
    last.op = "wait_event_timeout" =>
        /\ OnePollEvent(last.log)
        /\ last.ret = (IF IsSome(Final(last.log).out)
                       THEN Some(EventInput(Unwrap(Final(last.log).out)))
                       ELSE None)
        /\ IF pc = "timeout"
           THEN /\ ~last.returned
                /\ last.took = None
                /\ last.ret = None
                /\ \/ my_timer \in timers
                   \/ MarkersOf(native, my_timer) = 1
           ELSE /\ pc = "idle"
                /\ last.returned
                /\ last.took = None => IsSome(last.ret)

\* C22: a wait_event_timeout call returns, given that its timer thread is
\* scheduled and that run_return hands over an event of the queue: after
\* it has spawned the timer it takes one event from run_return, makes one
\* poll_event and returns its result, an event or None, without waiting
\* again.
C22_TimeoutReturns ==
    /\ []TimeoutSinglePass
    /\ (pc = "timeout") ~> (pc = "idle")

\* the call was blocked on an empty queue, run_return handed over the
\* marker of its own timer, and it returned None
C22_Witness ==
    /\ last.op = "wait_event_timeout"
    /\ last.returned
    /\ last.took = Some(WakeUp(my_timer))
    /\ last.pre.native = <<WakeUp(my_timer)>>
    /\ last.ret = None
    /\ pc = "idle"

\* the i-th entry of the log is a handle_event of an event that the
\* classifier does not recognize: a variant with no branch of its own, a
\* key event with no key code, or a press of the key that is held
IsUnrecognized(i) ==
    LET entry == last.log[i] IN
    \/ IsHandleOf(entry, "Moved")
    \/ /\ IsHandleOf(entry, "KeyboardInput")
       /\ Unwrap(entry.ev).virtual_keycode = None
    \/ /\ IsKey(entry, "Pressed")
       /\ entry.before.last_key_pressed = Some(KeyOf(entry))

\* the log is that of a call that pumps exactly when it finds the buffer
\* buf empty, and hands the events of the buffer to handle_event from the
\* front, one by one; nat is the event loop's queue
RECURSIVE Replays(_, _, _)
Replays(log, buf, nat) ==
    IF log = <<>> THEN TRUE
    ELSE LET e == Head(log) IN
         CASE e.step = "pre_pop" -> Tail(log) = <<>>
           [] e.step = "pump" ->
                /\ buf = <<>>
                /\ LET q == Append(nat, WakeUp(0)) IN
                   /\ e.taken <= Len(q)
                   /\ IsWakeUp(q[e.taken])
                   /\ Replays(Tail(log), Statics(SubSeq(q, 1, e.taken)),
                              SubSeq(q, e.taken + 1, Len(q)))
           [] e.step = "seed" ->
                /\ buf # <<>>
                /\ Head(buf) = e.ev
                /\ Replays(Tail(log), Tail(buf), nat)
           [] e.step = "handle" ->
                /\ buf # <<>>
                /\ e.ev = Some(Head(buf))
                /\ Replays(Tail(log), Tail(buf), nat)

\* the window when the poll_event of the last step began: after the
\* run_return of wait_event, if the step began with one
AtPoll == IF last.took = None THEN last.pre ELSE run_return_one(last.pre)

\* C23: an event that handle_event does not recognize is marked unknown
\* and never makes poll_event return None: the call goes on to the next
\* event of the buffer, after one more pump if the buffer is empty.
C23_UnknownGoesOn ==
    Retrieval =>
        /\ \A i \in LogIndices :
              IsUnrecognized(i) =>
                  /\ last.log[i].unknown
                  /\ last.log[i].out = None
                  /\ i < Len(last.log)
                  /\ last.log[i + 1].step \in {"pump", "handle"}
        /\ Replays(last.log, AtPoll.events, AtPoll.native)

\* wait_event is handed a Moved, the only event of its buffer, drops it,
\* pumps again, drops the repeated press that the pump has brought and
\* goes on to the next event
C23_Witness ==
    /\ last.op = "wait_event"
    /\ \E j \in LogIndices :
          /\ j + 2 < Len(last.log)
          /\ IsUnrecognized(j)
          /\ IsHandleOf(last.log[j], "Moved")
          /\ last.log[j + 1].step = "pump"
          /\ IsUnrecognized(j + 2)
          /\ IsKey(last.log[j + 2], "Pressed")
          /\ last.log[j + 3].step = "handle"

CaptureKeeps ==
    <<exit_on_esc, should_close, automatic_close, mouse_relative, cursor_pos,
      last_key_pressed, events, native, inner_size, surface_size>>

\* set_capture_cursor(true) leaves an unknown cursor position unknown and
\* a known one known: at the centre of the window if it was off the
\* centre and the platform has moved the pointer there, where it was
\* otherwise; set_capture_cursor(false) leaves last_cursor_pos as it is
CaptureStep ==
    SetCaptureCursor =>
        /\ UNCHANGED CaptureKeeps
        /\ cursor_visible' = ~is_capturing_cursor'
        /\ IF is_capturing_cursor' /\ IsSome(last_cursor_pos)
           THEN \/ last_cursor_pos' = last_cursor_pos
                \/ /\ last_cursor_pos # Some(Centre(Win))
                   /\ last_cursor_pos' = Some(Centre(Win))
           ELSE last_cursor_pos' = last_cursor_pos

\* a move is absorbed as the seed only when no move was seen before, in
\* capture mode or outside
SeedOnlyFirstMove ==
    Retrieval =>
        \A i \in LogIndices : last.log[i].step = "seed" => ~last.hist0.moved

IsIdleHandle(i) ==
    /\ last.log[i].step = "handle"
    /\ last.log[i].ev = None \/ IsWakeUp(Unwrap(last.log[i].ev))
    /\ last.log[i].before.is_capturing_cursor

\* C25 as stated: in capture mode handle_event of no event or of a wake
\* marker recenters (a known cursor position off the centre of the window
\* becomes the centre when the platform accepts the move) and gives no
\* event.
C25_AsStated ==
    Retrieval =>
        \A i \in LogIndices :
            IsIdleHandle(i) =>
                /\ last.log[i].out = None
                /\ last.log[i].after = fake_capture(last.log[i].before, last.ok)

\* the event that a call has returned is a MouseCursor
IsMouseCursor(ret) ==
    /\ IsSome(ret)
    /\ Unwrap(ret).input.kind = "Move"
    /\ Unwrap(ret).input.motion = "MouseCursor"

\* C26: a retrieval call made in capture mode returns no MouseCursor: of
\* the CursorMoved events it takes from the buffer, one is absorbed as the
\* seed when last_cursor_pos is None, and every other is returned as a
\* MouseRelative.
C26_NoMouseCursorWhileCapturing ==
    (Retrieval /\ last.pre.is_capturing_cursor) =>
        /\ ~IsMouseCursor(last.ret)
        /\ is_capturing_cursor
        /\ \A i \in LogIndices :
              /\ last.log[i].step = "pre_pop" =>
                    Unwrap(last.log[i].out).motion # "MouseCursor"
              /\ IsMove(i) =>
                    /\ IsSome(last.log[i].out)
                    /\ Unwrap(last.log[i].out).motion = "MouseRelative"
                    /\ ReturnedBy(i, Unwrap(last.log[i].out))

\* one call in capture mode absorbs a move as the seed and returns the
\* next move as a MouseRelative
C26_Witness ==
    /\ Retrieval
    /\ last.pre.is_capturing_cursor
    /\ \E i \in LogIndices :
          /\ last.log[i].step = "seed"
          /\ IsMove(i + 1)
          /\ ReturnedBy(i + 1, MouseRelative(Unwrap(last.log[i + 1].out).v))
          /\ Unwrap(last.log[i + 1].out).v # <<0, 0>>

\* outside capture mode, handle_event of a CursorMoved to q is returned as
\* MouseCursor(q) and leaves last_cursor_pos at q; it stashes q - p when
\* last_cursor_pos was p, and nothing when it was None
MoveStashesDelta ==
    Retrieval =>
        \A i \in LogIndices :
            (IsMove(i) /\ ~last.log[i].before.is_capturing_cursor) =>
                LET e == last.log[i]
                    q == Logical(Unwrap(e.ev).position)
                IN /\ ReturnedBy(i, MouseCursor(q))
                   /\ e.after.last_cursor_pos = Some(q)
                   /\ e.before.mouse_relative = None
                   /\ e.after.mouse_relative =
                         IF IsSome(e.before.last_cursor_pos)
                         THEN LET p0 == Unwrap(e.before.last_cursor_pos)
                              IN Some(<<q[1] - p0[1], q[2] - p0[2]>>)
                         ELSE None

\* the retrieval call after one that returned the MouseCursor of a move
\* from p to q returns MouseRelative(q - p) and classifies nothing; after
\* the MouseCursor of the first move ever it finds nothing stashed
NextCallReturnsDelta ==
    (Retrieval /\ IsSome(last.hist0.cursor)) =>
        LET c == Unwrap(last.hist0.cursor) IN
        IF IsSome(c.from)
        THEN LET p0 == Unwrap(c.from) IN
             /\ last.returned
             /\ last.log = <<[step |-> "pre_pop",
                              out |-> Some(MouseRelative(<<c.to[1] - p0[1], c.to[2] - p0[2]>>))]>>
             /\ last.ret = Some(EventInput(MouseRelative(<<c.to[1] - p0[1], c.to[2] - p0[2]>>)))
             /\ events = last.pre.events
             /\ last.took = None
        ELSE /\ last.pre.mouse_relative = None
             /\ last.log[1].step # "pre_pop"

\* C27: outside capture mode with last_cursor_pos = p, the CursorMoved to
\* q that a call classifies is returned as MouseCursor(q), sets
\* last_cursor_pos to q and stashes q - p, and the next retrieval call
\* returns MouseRelative(q - p) before it classifies a native event; the
\* first move ever returns its MouseCursor and stashes nothing.
C27_DeltaOnNextCall == MoveStashesDelta /\ NextCallReturnsDelta

\* the call after the MouseCursor of a move from (0, 0) to (3, 1) returns
\* MouseRelative(3, 1)
C27_Witness ==
    /\ Retrieval
    /\ ~last.pre.is_capturing_cursor
    /\ last.hist0.cursor = Some([from |-> Some(<<0, 0>>), to |-> <<3, 1>>])
    /\ last.ret = Some(EventInput(MouseRelative(<<3, 1>>)))
    /\ mouse_relative = None

\* the i-th entry of the log is a handle_event of a Pressed event for a
\* key other than the one in last_key_pressed
IsOtherPress(i) ==
    /\ IsKey(last.log[i], "Pressed")
    /\ IsSome(last.log[i].before.last_key_pressed)
    /\ last.log[i].before.last_key_pressed # Some(KeyOf(last.log[i]))

\* C28: with key A in last_key_pressed, a Pressed event for another key B
\* is returned as Button(Press, B) and puts B in last_key_pressed; so a
\* Pressed event for A that follows, with A still down, finds B there and
\* is returned as Button(Press, A) once more.
C28_OtherKeyReplacesHeld ==
    Retrieval =>
        \A i \in LogIndices :
            IsOtherPress(i) =>
                /\ ReturnedBy(i, ButtonArgs("Press", Keyboard(KeyOf(last.log[i])),
                                            Some(AsI32(Unwrap(last.log[i].ev).scancode))))
                /\ last.log[i].after.last_key_pressed = Some(KeyOf(last.log[i]))

\* A and Escape are both down, no release has been classified, Escape is
\* in last_key_pressed, and the call returns the press of A once more
C28_Witness ==
    /\ Retrieval
    /\ last.hist0.down = {"A", "Escape"}
    /\ last.hist0.held = Some("Escape")
    /\ last.hist0.ret_id = 2
    /\ \E i \in LogIndices :
          /\ IsOtherPress(i)
          /\ Unwrap(last.log[i].ev).id = 3
          /\ ReturnedBy(i, ButtonArgs("Press", Keyboard("A"), Some(30)))
    /\ last_key_pressed = Some("A")

\* C29: handle_event of a Released event for key K gives
\* Button(Release, K), which the call returns, whatever last_key_pressed
\* holds; it empties last_key_pressed when that holds K and changes
\* nothing of the window otherwise.
C29_ReleaseAlwaysReturned ==
    Retrieval =>
        \A i \in LogIndices :
            IsKey(last.log[i], "Released") =>
                LET e == last.log[i]
                    K == KeyOf(e)
                IN /\ ReturnedBy(i, ButtonArgs("Release", Keyboard(K),
                                               Some(AsI32(Unwrap(e.ev).scancode))))
                   /\ e.after = IF e.before.last_key_pressed = Some(K)
                                THEN [e.before EXCEPT !.last_key_pressed = None]
                                ELSE e.before

\* with A and Escape down and Escape in last_key_pressed, the release of A
\* is returned and Escape stays in the slot
C29_Witness ==
    /\ Retrieval
    /\ last.hist0.down = {"A", "Escape"}
    /\ \E i \in LogIndices :
          /\ IsKey(last.log[i], "Released")
          /\ last.log[i].before.last_key_pressed = Some("Escape")
          /\ ReturnedBy(i, ButtonArgs("Release", Keyboard("A"), Some(30)))
    /\ last_key_pressed = Some("Escape")
    /\ hist.down = {"Escape"}

\* C30: handle_event of a CloseRequested event gives Close, which the call
\* returns; it sets should_close when automatic_close is true and changes
\* nothing of the window when automatic_close is false.
C30_CloseRequested ==
    Retrieval =>
        \A i \in LogIndices :
            IsHandleOf(last.log[i], "CloseRequested") =>
                LET e == last.log[i] IN
                /\ ReturnedBy(i, Close)
                /\ e.after = IF e.before.automatic_close
                             THEN [e.before EXCEPT !.should_close = TRUE]
                             ELSE e.before
                /\ should_close = e.after.should_close

\* with automatic_close false a CloseRequested is returned as Close and
\* should_close stays false
C30_Witness ==
    /\ Retrieval
    /\ ~automatic_close
    /\ ~should_close
    /\ \E i \in LogIndices :
          /\ IsHandleOf(last.log[i], "CloseRequested")
          /\ ~last.log[i].before.should_close
    /\ last.ret = Some(EventInput(Close))

\* fake_capture at the end of handle_event of a CursorMoved to q in
\* capture mode: last_cursor_pos becomes the centre of the window when q
\* is off the centre and the platform accepts the move of the pointer,
\* and q otherwise; nothing else changes
RecenterInMove ==
    Retrieval =>
        \A i \in LogIndices :
            (/\ IsMove(i)
             /\ last.log[i].before.is_capturing_cursor
             /\ IsSome(last.log[i].before.last_cursor_pos)) =>
                LET e == last.log[i]
                    q == Logical(Unwrap(e.ev).position)
                IN e.after = [e.before EXCEPT !.last_cursor_pos =
                                 IF q # Centre(e.before) /\ last.ok
                                 THEN Some(Centre(e.before)) ELSE Some(q)]

\* fake_capture in set_capture_cursor(true): an unknown position and one
\* at the centre stay as they are; any other becomes the centre or stays
RecenterOnEntry ==
    (SetCaptureCursor /\ is_capturing_cursor') =>
        IF last_cursor_pos = None \/ last_cursor_pos = Some(Centre(Win))
        THEN last_cursor_pos' = last_cursor_pos
        ELSE last_cursor_pos' \in {last_cursor_pos, Some(Centre(Win))}

\* C31: fake_capture changes nothing when last_cursor_pos is None or the
\* logical centre of the window; otherwise it asks the platform to move
\* the pointer to the centre and sets last_cursor_pos to the centre if the
\* platform accepts, and leaves it as it is if the platform refuses.
C31_FakeCapture ==
    /\ []RecenterInMove
    /\ [][RecenterOnEntry]_vars

\* the platform has refused to move the pointer after a move to (3, 1), and
\* last_cursor_pos is left there, off the centre (2, 1)
C31_Witness ==
    /\ Retrieval
    /\ ~last.ok
    /\ \E i \in LogIndices :
          /\ IsMove(i)
          /\ last.log[i].before.is_capturing_cursor
          /\ IsSome(last.log[i].before.last_cursor_pos)
          /\ Unwrap(last.log[i].ev).position = <<6, 2>>
    /\ last_cursor_pos = Some(<<3, 1>>)

\* what one fake_capture may leave of the window w: w itself, or w with
\* last_cursor_pos at the centre if it was known and off the centre
OneRecenter(w) ==
    {w} \cup (IF IsSome(w.last_cursor_pos) /\ w.last_cursor_pos # Some(Centre(w))
              THEN {[w EXCEPT !.last_cursor_pos = Some(Centre(w))]}
              ELSE {})

NeverBuffered == {"ModifiersChanged", "ScaleFactorChanged", "Ime", "TouchpadMagnify",
                  "TouchpadRotate", "SmartMagnify", "Occluded"}

\* the native events of q that are neither wake markers nor of those kinds
Kept(q) == SelectSeq(q, LAMBDA e : ~IsWakeUp(e) /\ e.type \notin NeverBuffered)

\* the events that the entries of a log took from the buffer
RECURSIVE TakenFromBuffer(_)
TakenFromBuffer(log) ==
    IF log = <<>> THEN <<>>
    ELSE LET e == Head(log)
         IN (CASE e.step = "seed" -> <<e.ev>>
               [] e.step = "handle" /\ IsSome(e.ev) -> <<Unwrap(e.ev)>>
               [] OTHER -> <<>>)
            \o TakenFromBuffer(Tail(log))

NoneBuffered == \A i \in 1..Len(events) : events[i].type \notin NeverBuffered

NoneClassified ==
    Retrieval =>
        \A i \in 1..Len(TakenFromBuffer(last.log)) :
            TakenFromBuffer(last.log)[i].type \notin NeverBuffered

\* a step of a retrieval call: the other events that waited in the buffer
\* and the queue are those the call took from the buffer, as they arrived,
\* followed by those still in the buffer and the queue
OthersUnchanged ==
    (PollEvent \/ WaitEvent \/ WaitEventStep \/ WaitEventTimeout
        \/ WaitEventTimeoutStep) =>
        Kept(events \o native) = Kept(TakenFromBuffer(last'.log)) \o Kept(events' \o native')

\* C33: the buffer never holds a ModifiersChanged, ScaleFactorChanged, Ime,
\* TouchpadMagnify, TouchpadRotate, SmartMagnify or Occluded window event:
\* they are dropped when the queue is buffered, so none is classified,
\* while every other native event is buffered as it arrived.
C33_UnownedEventsDropped ==
    /\ []NoneBuffered
    /\ []NoneClassified
    /\ [][OthersUnchanged]_vars

\* run_return of wait_event was handed an Ime event, and the call returned
\* the cursor move that had arrived behind it
C33_Witness ==
    /\ last.op = "wait_event"
    /\ IsSome(last.took)
    /\ Unwrap(last.took).type = "Ime"
    /\ Len(last.pre.native) = 2
    /\ last.pre.native[2].type = "CursorMoved"
    /\ last.returned
    /\ last.ret = Some(EventInput(MouseCursor(<<3, 1>>)))
    /\ TakenFromBuffer(last.log)[1] = last.pre.native[2]

\* the platform's key code of a key event
CodeOf(entry) == Unwrap(Unwrap(entry.ev).virtual_keycode)

\* C34: a Pressed event is dropped as a repeat exactly when map_key of its
\* key code equals last_key_pressed, so presses of two key codes with the
\* same normalized key (Apostrophe and Grave, both Unknown) suppress each
\* other; every other press is returned, and last_key_pressed becomes its
\* normalized key.
C34_RepeatFilterNormalized ==
    Retrieval =>
        \A i \in LogIndices :
            IsKey(last.log[i], "Pressed") =>
                LET e == last.log[i]
                    K == map_key(CodeOf(e))
                IN IF e.before.last_key_pressed = Some(K)
                   THEN /\ Dropped(i)
                        /\ e.after.last_key_pressed = Some(K)
                   ELSE /\ ReturnedBy(i, ButtonArgs("Press", Keyboard(K),
                                                    Some(AsI32(Unwrap(e.ev).scancode))))
                        /\ e.after.last_key_pressed = Some(K)

\* with Unknown in the slot, one call drops a press of Grave and then a
\* press of Apostrophe
C34_Witness ==
    /\ Retrieval
    /\ \E i \in LogIndices :
          /\ i + 1 \in LogIndices
          /\ IsKey(last.log[i], "Pressed")
          /\ IsKey(last.log[i + 1], "Pressed")
          /\ CodeOf(last.log[i]) = "Grave"
          /\ CodeOf(last.log[i + 1]) = "Apostrophe"
          /\ last.log[i].before.last_key_pressed = Some("Unknown")
          /\ Dropped(i)
          /\ Dropped(i + 1)

\* C35: with exit_on_esc true, a press of Escape that is dropped as a
\* repeat (Escape is in the key-repeat slot) sets should_close to true all
\* the same, also when the caller had set it to false while Escape was
\* held; the press produces no event and changes nothing else.
C35_SuppressedEscapeCloses ==
    Retrieval =>
        \A i \in LogIndices :
            (/\ IsEscapePress(i)
             /\ last.log[i].before.exit_on_esc
             /\ last.log[i].before.last_key_pressed = Some("Escape")) =>
                /\ last.log[i].out = None
                /\ last.log[i].unknown
                /\ last.log[i].after = [last.log[i].before EXCEPT !.should_close = TRUE]
                /\ last.ret # Some(EventInput(ButtonArgs("Press", Keyboard("Escape"),
                                     Some(AsI32(Unwrap(last.log[i].ev).scancode)))))

\* poll_event found a press of Escape with Escape in the slot, exit_on_esc
\* true and should_close false; it has returned None and should_close is
\* true
C35_Witness ==
    /\ last.op = "poll_event"
    /\ last.ret = None
    /\ last.pre.exit_on_esc
    /\ ~last.pre.should_close
    /\ last.pre.last_key_pressed = Some("Escape")
    /\ \E i \in LogIndices :
          /\ IsEscapePress(i)
          /\ last.log[i].before = [last.pre EXCEPT !.events = <<>>, !.native = <<>>]
          /\ last.log[i].after.should_close
    /\ should_close

\* C36: once a Released event for key K has been classified,
\* last_key_pressed is not K until a Pressed event for K is classified,
\* and that next Pressed event for K is returned as Button(Press, K),
\* whatever presses and releases of other keys came in between. K is the
\* normalized key.
C36_PressAfterReleaseReturned ==
    Retrieval =>
        \A i \in LogIndices :
            /\ (IsKey(last.log[i], "Released") =>
                    last.log[i].after.last_key_pressed # Some(KeyOf(last.log[i])))
            /\ (last.log[i].step = "handle" =>
                    \A K \in ReleasedAfter(last.hist0.released, last.log, i - 1) :
                        last.log[i].before.last_key_pressed # Some(K))
            /\ (/\ IsKey(last.log[i], "Pressed")
                 /\ KeyOf(last.log[i])
                        \in ReleasedAfter(last.hist0.released, last.log, i - 1)) =>
                    ReturnedBy(i, ButtonArgs("Press", Keyboard(KeyOf(last.log[i])),
                                             Some(AsI32(Unwrap(last.log[i].ev).scancode))))

\* A was released, Escape was pressed and is held, and the press of A that
\* follows is returned
C36_Witness ==
    /\ Retrieval
    /\ last.hist0.released = {"A"}
    /\ last.hist0.down = {"Escape"}
    /\ last.pre.last_key_pressed = Some("Escape")
    /\ \E i \in LogIndices :
          /\ IsKey(last.log[i], "Pressed")
          /\ ReturnedBy(i, ButtonArgs("Press", Keyboard("A"), Some(30)))
    /\ hist.released = {}

\* the wake markers outstanding in the queue q of the event loop
MarkerCount(q) == Len(SelectSeq(q, IsWakeUp))

\* a step of a retrieval call: the step leaves the record of a retrieval
\* call, and no event arrives and no timer fires in it
RetrievalStep ==
    /\ last'.op \in {"poll_event", "wait_event", "wait_event_timeout"}
    /\ next_id' = next_id
    /\ timers \subseteq timers'

\* the queue that the poll_event of this step finds: run_return of
\* wait_event and wait_event_timeout has taken one event before it
SourceAtPoll == IF pc \in {"wait", "timeout"} THEN Tail(native) ELSE native

\* the pumps of a retrieval step leave as many wake markers outstanding as
\* they found
PumpKeepsCount == RetrievalStep => MarkerCount(native') = MarkerCount(SourceAtPoll)

\* a pump stops at its own marker exactly when it found no marker
\* outstanding
PumpStopsAtEarliest ==
    RetrievalStep =>
        \A i \in 1..Len(last'.log) :
            last'.log[i].step = "pump" =>
                (last'.log[i].own <=> MarkerCount(SourceAtPoll) = 0)

\* the number of markers outstanding goes down in one way only: run_return
\* of wait_event or wait_event_timeout is handed a marker
OnlyRunReturnRemoves ==
    MarkerCount(native') < MarkerCount(native) =>
        /\ pc \in {"wait", "timeout"}
        /\ IsWakeUp(Head(native))
        /\ MarkerCount(native') = MarkerCount(native) - 1

\* C37 as stated: poll_events sends one wake marker and takes one, so once
\* a pump has stopped at a stale marker, every later pump stops at a marker
\* sent before its own.
C37_AsStated ==
    (Retrieval /\ last.hist0.stale) =>
        \A i \in LogIndices : last.log[i].step = "pump" => ~last.log[i].own

\* C37: poll_events sends one wake marker and takes one from the queue, so
\* as many markers are outstanding after a pump as before it, and polling
\* never takes a stale marker away without leaving its own; a pump stops at
\* a marker sent before its own exactly when a marker is outstanding when it
\* begins. The number outstanding goes down only when run_return of
\* wait_event or wait_event_timeout is handed a marker.
C37_MarkersOutstanding ==
    /\ [][PumpKeepsCount]_vars
    /\ [][PumpStopsAtEarliest]_vars
    /\ [][OnlyRunReturnRemoves]_vars

\* poll_event has found the stale marker of a timer in the queue: its
\* pump has stopped at that marker, and its own marker is now outstanding
C37_Witness ==
    /\ last.op = "poll_event"
    /\ last.pre.events = <<>>
    /\ last.pre.native = <<WakeUp(1)>>
    /\ last.log[1] = [step |-> "pump", taken |-> 1, own |-> FALSE]
    /\ native = <<WakeUp(0)>>
    /\ MarkerCount(native) = MarkerCount(last.pre.native)

\* the entry is a handle_event that sets should_close: of a press of
\* Escape with exit_on_esc true, or of CloseRequested with automatic_close
\* true
Closes(entry) ==
    \/ /\ IsKey(entry, "Pressed")
       /\ KeyOf(entry) = "Escape"
       /\ entry.before.exit_on_esc
    \/ /\ IsHandleOf(entry, "CloseRequested")
       /\ entry.before.automatic_close

ClassifyingCloses ==
    Retrieval =>
        \A i \in LogIndices :
            last.log[i].step = "handle" =>
                last.log[i].after.should_close
                    = (Closes(last.log[i]) \/ last.log[i].before.should_close)

\* a step that changes should_close is set_should_close, or a retrieval
\* call that has classified one of the two events and leaves it true
OnlyThreeWays ==
    should_close' # should_close =>
        \/ SetShouldClose
        \/ /\ RetrievalStep
           /\ \E i \in 1..Len(last'.log) : Closes(last'.log[i])
           /\ should_close'

\* C38: should_close changes only through set_should_close, through a
\* press of Escape while exit_on_esc is true, or through CloseRequested
\* while automatic_close is true; handle_event of any other event leaves it
\* as it was, and no retrieval call changes it from true to false.
C38_ShouldCloseChanges ==
    /\ []ClassifyingCloses
    /\ [][OnlyThreeWays]_vars
    /\ [][(RetrievalStep /\ should_close) => should_close']_vars

\* should_close and exit_on_esc are true and Escape is held; poll_event
\* has classified a Focused event and returned it, and should_close is
\* still true
C38_Witness ==
    /\ last.op = "poll_event"
    /\ last.pre.should_close
    /\ last.pre.exit_on_esc
    /\ last.hist0.held = Some("Escape")
    /\ \E i \in LogIndices :
          /\ IsHandleOf(last.log[i], "Focused")
          /\ ~Closes(last.log[i])
          /\ last.returned
          /\ IsSome(last.ret)
          /\ i = Len(last.log)
    /\ should_close

\* no handle_event and no seed finds a relative motion pending
NothingPendingAtHandle ==
    Retrieval =>
        \A i \in LogIndices :
            /\ (last.log[i].step = "handle" => last.log[i].before.mouse_relative = None)
            /\ (last.log[i].step = "seed" => last.pre.mouse_relative = None)

\* a pending relative motion goes away in one way only: a retrieval call
\* returns it from pre_pop_front_event, before it takes anything else
PendingOnlyReturned ==
    (IsSome(mouse_relative) /\ mouse_relative' # mouse_relative) =>
        /\ RetrievalStep
        /\ last'.log = <<[step |-> "pre_pop",
                          out |-> Some(MouseRelative(Unwrap(mouse_relative)))]>>
        /\ last'.returned
        /\ last'.ret = Some(EventInput(MouseRelative(Unwrap(mouse_relative))))
        /\ mouse_relative' = None

\* C39: mouse_relative is None whenever handle_event is entered, so a
\* stashed relative motion is not overwritten and not lost: it stays as it
\* is until a retrieval call returns it.
C39_PendingDeltaSafe ==
    /\ []NothingPendingAtHandle
    /\ [][PendingOnlyReturned]_vars

\* a call returns the pending motion; it was stashed by a move from (0, 0)
\* to (3, 1) outside capture mode
C39_Witness ==
    /\ last.op = "poll_event"
    /\ last.pre.mouse_relative = Some(<<3, 1>>)
    /\ last.pre.last_cursor_pos = Some(<<3, 1>>)
    /\ last.pre.events # <<>>
    /\ last.log = <<[step |-> "pre_pop", out |-> Some(MouseRelative(<<3, 1>>))]>>
    /\ mouse_relative = None
    /\ events = last.pre.events

\* no handle_event finds or leaves a pending absolute position, and
\* pre_pop_front_event returns no MouseCursor
NoPendingCursor ==
    Retrieval =>
        /\ last.pre.cursor_pos = None
        /\ \A i \in LogIndices :
              /\ (last.log[i].step = "handle" =>
                     /\ last.log[i].before.cursor_pos = None
                     /\ last.log[i].after.cursor_pos = None)
              /\ (last.log[i].step = "pre_pop" => ~IsMouseCursor(last.ret))

\* a MouseCursor that a call returns is what handle_event made of the
\* CursorMoved event that the call took last
MouseCursorFromMove ==
    (Retrieval /\ IsMouseCursor(last.ret)) =>
        /\ IsMove(Len(last.log))
        /\ ReturnedBy(Len(last.log),
                      MouseCursor(Logical(Unwrap(Final(last.log).ev).position)))

====
